---- MODULE Spec2Model ----
(***************************************************************************)
(* A model of email-to-notion: parseSubject, parseForwardedHeaders and     *)
(* stripForwardingHeaders (parse.js), the conversion of the body to        *)
(* Notion blocks (convert.js), filterAttachments (attachments.js) and the  *)
(* two Lambda handlers.                                                    *)
(*                                                                         *)
(* A JavaScript string is a sequence of one-character strings, so every   *)
(* regular expression of the source is modelled character by character.   *)
(***************************************************************************)
EXTENDS Integers, Sequences, FiniteSets, TLC

VARIABLES
    pc,             \* "start" before the call under study, "done" after it
    subject,        \* argument of parseSubject (NULL or a string)
    parsed,         \* what parseSubject returned
    text,           \* argument of parseForwardedHeaders / stripForwardingHeaders
    allowedSenders, \* argument of parseForwardedHeaders
    fwd,            \* what parseForwardedHeaders returned
    stripped,       \* stripForwardingHeaders(text)
    restripped,     \* stripForwardingHeaders(stripped)
    markdown,       \* the text handed to the functions of convert.js
    maxLength,      \* argument of chunkText
    chunks,         \* what chunkText returned
    contentBlocks,  \* what markdownToBlocks / processEmailBody returned
    linked,         \* linkifyUrls(markdown)
    relinked,       \* linkifyUrls(linked)
    richText,       \* what parseRichText returned
    attachments,    \* argument of filterAttachments
    filtered,       \* what filterAttachments returned
    variant,        \* the handler that runs: "postmark" (index.js) or "ses"
    event,          \* the Lambda event and the mail it carries
    cachedConfig,   \* the module-level configuration cache of the handler
    locals,         \* the local variables of the handler
    trace,          \* the calls the handler has made, in their order
    response,       \* what the handler returned, NULL before it returns
    error,          \* the error the handler caught or threw, NULL without one
    address,        \* the To or From header handed to validate.js
    secret,         \* the inboxSecret argument of validateRecipient
    valid,          \* what validateRecipient / validateSender returned
    scanLines,      \* the lines markdownToBlocks scans
    lineIndex,      \* the index i of the loop of markdownToBlocks, from 0
    visits,         \* how many times the loop has consumed each line
    scanBlocks,     \* the blocks the loop has pushed
    codeLines,      \* the lines of the fence the loop is in
    pageCreated,    \* client.pages.create has answered
    pending,        \* the blocks createEmailEntry has still to send
    inFlight,       \* the batch of the request that has not answered yet
    sent            \* the batches of the requests that have answered

convertVars ==
    <<markdown, maxLength, chunks, contentBlocks, linked, relinked, richText>>

attachVars == <<attachments, filtered>>

handlerVars == <<variant, event, cachedConfig, locals, trace, response, error>>

validateVars == <<address, secret, valid>>

scanVars == <<scanLines, lineIndex, visits, scanBlocks, codeLines>>

notionVars == <<pageCreated, pending, inFlight, sent>>

laterVars == <<validateVars, scanVars, notionVars>>

vars == <<pc, subject, parsed, text, allowedSenders, fwd, stripped, restripped,
          convertVars, attachVars, handlerVars, laterVars>>

\* JavaScript null: a value that no string (sequence of characters) equals
NULL == <<"null">>

\* the variables of convert.js before any of its functions is called
IdleConvert ==
    /\ markdown = <<>>
    /\ maxLength = 0
    /\ chunks = <<>>
    /\ contentBlocks = <<>>
    /\ linked = <<>>
    /\ relinked = <<>>
    /\ richText = <<>>

\* the variables of filterAttachments before it is called
IdleAttach ==
    /\ attachments = <<>>
    /\ filtered = [valid |-> <<>>, warnings |-> <<>>]

\* the variables of validate.js before a call
IdleValidate ==
    /\ address = <<>>
    /\ secret = <<>>
    /\ valid = FALSE

\* the variables of the loop of markdownToBlocks before it starts
IdleScan ==
    /\ scanLines = <<>>
    /\ lineIndex = 0
    /\ visits = <<>>
    /\ scanBlocks = <<>>
    /\ codeLines = <<>>

\* the variables of createEmailEntry before it is called
IdleNotion ==
    /\ pageCreated = FALSE
    /\ pending = <<>>
    /\ inFlight = <<>>
    /\ sent = <<>>

IdleLater == IdleValidate /\ IdleScan /\ IdleNotion

\* the variables of the handlers when no handler runs
IdleHandler ==
    /\ variant = "none"
    /\ event = NULL
    /\ cachedConfig = NULL
    /\ locals = NULL
    /\ trace = <<>>
    /\ response = NULL
    /\ error = NULL

----------------------------------------------------------------------------
(* Characters and character classes of the regular expressions *)

LowerLetters == {"a","b","c","d","e","f","g","h","i","j","k","l","m",
                 "n","o","p","q","r","s","t","u","v","w","x","y","z"}
LowerTable ==
    [c \in {"A","B","C","D","E","F","G","H","I","J","K","L","M",
            "N","O","P","Q","R","S","T","U","V","W","X","Y","Z"} |->
       CASE c = "A" -> "a" [] c = "B" -> "b" [] c = "C" -> "c" [] c = "D" -> "d"
         [] c = "E" -> "e" [] c = "F" -> "f" [] c = "G" -> "g" [] c = "H" -> "h"
         [] c = "I" -> "i" [] c = "J" -> "j" [] c = "K" -> "k" [] c = "L" -> "l"
         [] c = "M" -> "m" [] c = "N" -> "n" [] c = "O" -> "o" [] c = "P" -> "p"
         [] c = "Q" -> "q" [] c = "R" -> "r" [] c = "S" -> "s" [] c = "T" -> "t"
         [] c = "U" -> "u" [] c = "V" -> "v" [] c = "W" -> "w" [] c = "X" -> "x"
         [] c = "Y" -> "y" [] c = "Z" -> "z"]
UpperLetters == DOMAIN LowerTable
Digits == {"0","1","2","3","4","5","6","7","8","9"}

\* String.prototype.toLowerCase, one character
LowerChar(c) == IF c \in UpperLetters THEN LowerTable[c] ELSE c

\* String.prototype.toLowerCase
toLowerCase(s) == [i \in 1..Len(s) |-> LowerChar(s[i])]

\* \w
IsWordChar(c) == c \in LowerLetters \cup UpperLetters \cup Digits \cup {"_"}

\* \s (and the characters String.prototype.trim removes)
IsSpace(c) == c \in {" ", "\t", "\n"}

\* [a-z0-9]
IsLowerAlnum(c) == c \in LowerLetters \cup Digits

\* s.slice(i) with i counted from 0
SliceFrom(s, i) == SubSeq(s, i + 1, Len(s))

\* Index (1-based) of the first character at or after i that is not \s;
\* Len(s)+1 when there is none: where a greedy \s* started at i stops.
RECURSIVE SkipSpace(_, _)
SkipSpace(s, i) ==
    IF i <= Len(s) /\ IsSpace(s[i]) THEN SkipSpace(s, i + 1) ELSE i

\* Index of the first character at or after i that is not \w
RECURSIVE SkipWord(_, _)
SkipWord(s, i) ==
    IF i <= Len(s) /\ IsWordChar(s[i]) THEN SkipWord(s, i + 1) ELSE i

\* The literal lit stands in s at index i, compared as the i flag compares
MatchLitCI(s, i, lit) ==
    /\ i >= 1
    /\ i + Len(lit) - 1 <= Len(s)
    /\ \A k \in 1..Len(lit) : LowerChar(s[i + k - 1]) = LowerChar(lit[k])

\* Index of the last character of s that is not \s, 0 when there is none
RECURSIVE LastNonSpace(_, _)
LastNonSpace(s, i) ==
    IF i >= 1 /\ IsSpace(s[i]) THEN LastNonSpace(s, i - 1) ELSE i

\* String.prototype.trim
Trim(s) ==
    LET a == SkipSpace(s, 1)
        b == LastNonSpace(s, Len(s))
    IN  IF a > b THEN <<>> ELSE SubSeq(s, a, b)

\* s.replace(/[^a-z0-9]/g, '')
KeepLowerAlnum(s) == SelectSeq(s, IsLowerAlnum)

----------------------------------------------------------------------------
(* parseSubject *)

MaxClientLen == 50

MISSING == <<"m","i","s","s","i","n","g">>

\* subject.match(/^#(\w+):?\s*/): 0 when there is no match, otherwise the
\* length of the match; the token is characters 2 .. ClientTokenEnd-1.
ClientTokenEnd(s) ==
    IF Len(s) >= 2 /\ s[1] = "#" /\ IsWordChar(s[2]) THEN SkipWord(s, 2) ELSE 0

ClientMatchLen(s) ==
    LET e == ClientTokenEnd(s)
        c == IF e <= Len(s) /\ s[e] = ":" THEN e + 1 ELSE e
    IN  IF e = 0 THEN 0 ELSE SkipSpace(s, c) - 1

\* parse.js lines 24-31 with a slice that keeps everything: a mutant
SanitizeClientNoSlice(token) ==
    LET c == KeepLowerAlnum(toLowerCase(token))
    IN  IF c = <<>> THEN MISSING ELSE c

\* parse.js lines 24-31: lowercase, [a-z0-9] only, 50 characters, "missing"
SanitizeClient(token) ==
    LET c1 == KeepLowerAlnum(toLowerCase(token))
        c2 == IF Len(c1) > MaxClientLen THEN SubSeq(c1, 1, MaxClientLen) ELSE c1
    IN  IF c2 = <<>> THEN MISSING ELSE c2

\* the alternatives of /^(fwd|fw|re|reply):\s*/i, in the order tried
PrefixWords == << <<"f","w","d">>, <<"f","w">>, <<"r","e">>, <<"r","e","p","l","y">> >>

\* prefixPattern.test(s): some alternative, then ':', stands at the start
PrefixTest(s) ==
    \E k \in 1..Len(PrefixWords) : MatchLitCI(s, 1, PrefixWords[k] \o <<":">>)

\* s.replace(prefixPattern, ''): the first alternative that matches decides
PrefixReplace(s) ==
    IF ~PrefixTest(s) THEN s
    ELSE LET k == CHOOSE k \in 1..Len(PrefixWords) :
                    /\ MatchLitCI(s, 1, PrefixWords[k] \o <<":">>)
                    /\ \A j \in 1..(k - 1) :
                          ~MatchLitCI(s, 1, PrefixWords[j] \o <<":">>)
         IN  SliceFrom(s, SkipSpace(s, Len(PrefixWords[k]) + 2) - 1)

\* while (prefixPattern.test(cleanSubject)) cleanSubject = cleanSubject.replace(...)
RECURSIVE StripPrefixes(_)
StripPrefixes(s) == IF PrefixTest(s) THEN StripPrefixes(PrefixReplace(s)) ELSE s

\* parseSubject as its doc comment describes it (@throws when the client
\* tag is missing): a mutant
parseSubjectThrowing(subj) ==
    LET s == IF subj = NULL \/ subj = <<>> THEN <<>> ELSE subj
        n == ClientMatchLen(s)
    IN  IF n = 0
        THEN [threw |-> TRUE, client |-> <<>>, subject |-> <<>>]
        ELSE [threw   |-> FALSE,
              client  |-> SanitizeClient(SubSeq(s, 2, ClientTokenEnd(s) - 1)),
              subject |-> Trim(StripPrefixes(SliceFrom(s, n)))]

\* parseSubject: no statement of it throws for a string or a null argument
parseSubject(subj) ==
    LET s == IF subj = NULL \/ subj = <<>> THEN <<>> ELSE subj
        n == ClientMatchLen(s)
        client == IF n > 0
                  THEN SanitizeClient(SubSeq(s, 2, ClientTokenEnd(s) - 1))
                  ELSE MISSING
        cleanSubject == IF n > 0 THEN SliceFrom(s, n) ELSE s
    IN  [threw   |-> FALSE,
         client  |-> client,
         subject |-> Trim(StripPrefixes(cleanSubject))]

----------------------------------------------------------------------------
(* parseForwardedHeaders and its helpers *)

\* Array.prototype.includes
Includes(arr, x) == \E i \in 1..Len(arr) : arr[i] = x

\* the least element of a non-empty set of indices
MinOf(S) == CHOOSE x \in S : \A y \in S : x <= y

\* Index of the first character at or after i that is not c
RECURSIVE SkipChar(_, _, _)
SkipChar(s, i, c) ==
    IF i <= Len(s) /\ s[i] = c THEN SkipChar(s, i + 1, c) ELSE i

\* Index of the first "\n" at or after i, Len(s)+1 when there is none
RECURSIVE LineEnd(_, _)
LineEnd(s, i) ==
    IF i <= Len(s) /\ s[i] # "\n" THEN LineEnd(s, i + 1) ELSE i

\* Index of the last character in lo..i that is not "\n", 0 when there is none
RECURSIVE LastNonNewline(_, _, _)
LastNonNewline(s, lo, i) ==
    IF i < lo THEN 0
    ELSE IF s[i] # "\n" THEN i ELSE LastNonNewline(s, lo, i - 1)

FORWARDED == <<"F","o","r","w","a","r","d","e","d"," ","m","e","s","s","a","g","e">>
BEGINFWD == <<"B","e","g","i","n"," ","f","o","r","w","a","r","d","e","d"," ","m","e","s","s","a","g","e",":">>
ONSPACE == <<"O","n"," ">>
WROTE == <<"w","r","o","t","e",":">>
FROMKEY == <<"F","r","o","m",":">>
DATEKEY == <<"D","a","t","e",":">>
SENTKEY == <<"S","e","n","t",":">>

\* -{5,}\s*Forwarded message\s*-{5,} tried at index i: the index after the
\* match, 0 when it does not match here
GmailHead(s, i) ==
    LET d  == SkipChar(s, i, "-")
        w  == SkipSpace(s, d)
        w2 == SkipSpace(s, w + Len(FORWARDED))
        d2 == SkipChar(s, w2, "-")
    IN  IF d - i >= 5 /\ MatchLitCI(s, w, FORWARDED) /\ d2 - w2 >= 5 THEN d2 ELSE 0

\* _{5,} tried at index i
OutlookHead(s, i) ==
    LET u == SkipChar(s, i, "_") IN IF u - i >= 5 THEN u ELSE 0

\* Begin forwarded message: tried at index i
AppleHead(s, i) ==
    IF MatchLitCI(s, i, BEGINFWD) THEN i + Len(BEGINFWD) ELSE 0

\* the lazy .+? of /On .+?wrote:/ having taken the characters up to j-1:
\* the index of the first 'wrote:' it reaches within the line, 0 when none
RECURSIVE FirstWrote(_, _)
FirstWrote(s, j) ==
    IF j > Len(s) \/ s[j - 1] = "\n" THEN 0
    ELSE IF MatchLitCI(s, j, WROTE) THEN j
    ELSE FirstWrote(s, j + 1)

\* On .+?wrote: tried at index i
OnWroteHead(s, i) ==
    LET j == IF MatchLitCI(s, i, ONSPACE) THEN FirstWrote(s, i + Len(ONSPACE) + 1) ELSE 0
    IN  IF j = 0 THEN 0 ELSE j + Len(WROTE)

\* the lookaheads (?=\n\n|\n-{5,}|$), (?=\n\n|\n_{5,}|$) and (?=\n\n|$) at
\* index p; div is the divider character of the pattern, "" for none
LookaheadAt(s, p, div) ==
    \/ p = Len(s) + 1
    \/ /\ p <= Len(s)
       /\ s[p] = "\n"
       /\ \/ (p + 1 <= Len(s) /\ s[p + 1] = "\n")
          \/ (div # "" /\ SkipChar(s, p + 1, div) - (p + 1) >= 5)

\* [\s\S]*? before the lookahead: the first index at or after j where the
\* lookahead holds (it holds at Len(s)+1 at the latest)
LazyEnd(s, j, div) == MinOf({p \in j..(Len(s) + 1) : LookaheadAt(s, p, div)})

\* blockPatterns[k] tried at index i: the index of the last character of
\* the match, 0 when the pattern does not match here
BlockEnd(s, i, k) ==
    LET h == CASE k = 1 -> GmailHead(s, i)
               [] k = 2 -> OutlookHead(s, i)
               [] k = 3 -> AppleHead(s, i)
               [] k = 4 -> OnWroteHead(s, i)
        div == CASE k = 1 -> "-" [] k = 2 -> "_" [] OTHER -> ""
    IN  IF h = 0 THEN 0 ELSE LazyEnd(s, h, div) - 1

\* text.match(blockPatterns[k]) || []: the matches from index i on, left to
\* right, each with the index it starts at; the search for the next match
\* resumes after the last character of the match before
RECURSIVE MatchAll(_, _, _)
MatchAll(s, i, k) ==
    LET starts == {j \in i..Len(s) : BlockEnd(s, j, k) # 0}
    IN  IF starts = {} THEN <<>>
        ELSE LET j == MinOf(starts)
                 e == BlockEnd(s, j, k)
             IN  <<[start |-> j, str |-> SubSeq(s, j, e)]>> \o MatchAll(s, e + 1, k)

NumBlockPatterns == 4

\* the blocks in the order the two nested loops of the first pass visit
\* them: pattern by pattern, and within a pattern left to right
RECURSIVE BlocksFrom(_, _)
BlocksFrom(s, k) ==
    IF k > NumBlockPatterns THEN <<>>
    ELSE MatchAll(s, 1, k) \o BlocksFrom(s, k + 1)

NoMatch == [found |-> FALSE, index |-> 0, value |-> <<>>, last |-> 0]

\* \s*(.+?)(?:\n|$) from index p: the captured value and the last index
\* the match consumes. A greedy \s* leaves the first non-space character to
\* the capture; when only spaces follow it gives back as little as it can.
ValueMatch(s, k, p) ==
    LET r == SkipSpace(s, p)
        a == IF r <= Len(s) THEN r ELSE LastNonNewline(s, p, Len(s))
        e == LineEnd(s, a)
    IN  IF a = 0 THEN NoMatch
        ELSE [found |-> TRUE, index |-> k, value |-> SubSeq(s, a, e - 1),
              last  |-> IF e <= Len(s) THEN e ELSE e - 1]

\* /From:\s*(.+?)(?:\n|$)/i and /(?:Date|Sent):\s*(.+?)(?:\n|$)/i searched
\* from index k on: the leftmost match, or NoMatch (every key is 5 long)
HeaderExec(s, keys, k) ==
    LET hits == {j \in k..Len(s) :
                   /\ \E key \in keys : MatchLitCI(s, j, key)
                   /\ ValueMatch(s, j, j + Len(FROMKEY)).found}
    IN  IF hits = {} THEN NoMatch
        ELSE ValueMatch(s, MinOf(hits), MinOf(hits) + Len(FROMKEY))

FromKeys == {FROMKEY}
DateKeys == {DATEKEY, SENTKEY}

\* /<([^>]+)>/: the first '<' followed by at least one character other
\* than '>' and then by '>'
RECURSIVE BracketMatch(_, _)
BracketMatch(s, i) ==
    IF i > Len(s) THEN NULL
    ELSE LET g == IF s[i] = "<" /\ i + 1 <= Len(s) /\ s[i + 1] # ">"
                  THEN CHOOSE j \in (i + 2)..(Len(s) + 1) :
                         /\ j = Len(s) + 1 \/ s[j] = ">"
                         /\ \A h \in (i + 2)..(j - 1) : s[h] # ">"
                  ELSE Len(s) + 1
         IN  IF g <= Len(s) THEN SubSeq(s, i + 1, g - 1) ELSE BracketMatch(s, i + 1)

\* Index of the first character at or after i that is \s
RECURSIVE SkipNonSpace(_, _)
SkipNonSpace(s, i) ==
    IF i <= Len(s) /\ ~IsSpace(s[i]) THEN SkipNonSpace(s, i + 1) ELSE i

\* /([^\s]+@[^\s]+)/: the first run of non-space characters with an '@'
\* that is neither its first nor its last character
RECURSIVE PlainEmailMatch(_, _)
PlainEmailMatch(s, i) ==
    IF i > Len(s) THEN NULL
    ELSE IF IsSpace(s[i]) THEN PlainEmailMatch(s, i + 1)
    ELSE LET e == SkipNonSpace(s, i)
         IN  IF \E a \in (i + 1)..(e - 2) : s[a] = "@"
             THEN SubSeq(s, i, e - 1)
             ELSE PlainEmailMatch(s, e)

\* extractEmailFromHeader
extractEmailFromHeader(fromString) ==
    IF fromString = <<>> THEN NULL
    ELSE LET b == BracketMatch(fromString, 1)
             e == PlainEmailMatch(fromString, 1)
         IN  IF b # NULL THEN toLowerCase(b)
             ELSE IF e # NULL THEN toLowerCase(e)
             ELSE NULL

----------------------------------------------------------------------------
(* parseDateString *)

ATWORD == <<"a","t">>
WeekDays == { <<"M","o","n">>, <<"T","u","e">>, <<"W","e","d">>, <<"T","h","u">>, <<"F","r","i">>, <<"S","a","t">>, <<"S","u","n">> }

\* s.replace(/\s+at\s+/gi, ' ') from index i on
RECURSIVE ReplaceAt(_, _)
ReplaceAt(s, i) ==
    IF i > Len(s) THEN <<>>
    ELSE LET r == SkipSpace(s, i)
             e == SkipSpace(s, r + Len(ATWORD))
         IN  IF r > i /\ MatchLitCI(s, r, ATWORD) /\ e > r + Len(ATWORD)
             THEN <<" ">> \o ReplaceAt(s, e)
             ELSE <<s[i]>> \o ReplaceAt(s, i + 1)

\* s.replace(/\s+/g, ' ') from index i on
RECURSIVE CollapseSpace(_, _)
CollapseSpace(s, i) ==
    IF i > Len(s) THEN <<>>
    ELSE IF IsSpace(s[i]) THEN <<" ">> \o CollapseSpace(s, SkipSpace(s, i))
    ELSE <<s[i]>> \o CollapseSpace(s, i + 1)

\* s.replace(/^(Mon|Tue|Wed|Thu|Fri|Sat|Sun),?\s*/i, '')
WithoutDay(s) ==
    IF \E d \in WeekDays : MatchLitCI(s, 1, d)
    THEN SliceFrom(s, SkipSpace(s, IF Len(s) >= 4 /\ s[4] = "," THEN 5 ELSE 4) - 1)
    ELSE s

IsDigits(s, a, b) == \A i \in a..b : s[i] \in Digits

\* yyyy-mm-dd stands at the start of s, with a month 01..12 and a day 01..31
IsIsoDay(s) ==
    /\ Len(s) >= 10
    /\ IsDigits(s, 1, 4) /\ s[5] = "-" /\ IsDigits(s, 6, 7) /\ s[8] = "-"
    /\ IsDigits(s, 9, 10)
    /\ <<s[6], s[7]>> # <<"0","0">> /\ (s[6] = "0" \/ (s[6] = "1" /\ s[7] \in {"0","1","2"}))
    /\ <<s[9], s[10]>> # <<"0","0">> /\ (s[9] \in {"0","1","2"} \/ (s[9] = "3" /\ s[10] \in {"0","1"}))

\* hh:mm stands at index 12..16 of s, 00:00 .. 23:59
IsClock(s) ==
    /\ Len(s) = 16 /\ s[11] = " "
    /\ IsDigits(s, 12, 13) /\ s[14] = ":" /\ IsDigits(s, 15, 16)
    /\ (s[12] \in {"0","1"} \/ (s[12] = "2" /\ s[13] \in {"0","1","2","3"}))
    /\ s[15] \in {"0","1","2","3","4","5"}

\* new Date(s) followed by the isNaN test and toISOString(), for the
\* formats the model feeds it: 'yyyy-mm-dd' (read as UTC midnight) and
\* 'yyyy-mm-dd hh:mm' (read as local time; the function runs with TZ=UTC).
\* Any other string stands for an Invalid Date: NULL.
DateToISO(s) ==
    IF IsIsoDay(s) /\ Len(s) = 10
    THEN s \o <<"T","0","0",":","0","0",":","0","0",".","0","0","0","Z">>
    ELSE IF IsIsoDay(s) /\ IsClock(s)
    THEN SubSeq(s, 1, 10) \o <<"T">> \o SubSeq(s, 12, 16) \o <<":","0","0",".","0","0","0","Z">>
    ELSE NULL

\* parseDateString without the normalizing steps (parse.js 127-139): used
\* by the mutant parseForwardedHeadersFlat
parseDateStringRaw(dateString) ==
    IF dateString = <<>> THEN NULL ELSE DateToISO(dateString)

\* parseDateString
parseDateString(dateString) ==
    IF dateString = <<>> THEN NULL
    ELSE LET normalized == Trim(CollapseSpace(ReplaceAt(dateString, 1), 1))
             withoutDay == WithoutDay(normalized)
         IN  IF DateToISO(normalized) # NULL THEN DateToISO(normalized)
             ELSE IF DateToISO(withoutDay) # NULL THEN DateToISO(withoutDay)
             ELSE NULL

----------------------------------------------------------------------------
(* parseForwardedHeaders *)

NoResult == [found |-> FALSE, originalFrom |-> NULL, originalDate |-> NULL]

\* the allowed senders taken as configured, not lowercased: a mutant
SelfEmailsRaw(allowed) == allowed

\* (allowedSenders || []).map(s => s.toLowerCase())
SelfEmails(allowed) == [i \in 1..Len(allowed) |-> toLowerCase(allowed[i])]

\* a self test that reads the address from the angle-bracket form only: a
\* mutant
IsSelfBracketOnly(fromValue, selfEmails) ==
    LET emailInFrom == BracketMatch(fromValue, 1)
    IN  emailInFrom # NULL /\ Includes(selfEmails, toLowerCase(emailInFrom))

\* emailInFrom && selfEmails.includes(emailInFrom.toLowerCase())
IsSelf(fromValue, selfEmails) ==
    LET emailInFrom == extractEmailFromHeader(fromValue)
    IN  emailInFrom # NULL /\ Includes(selfEmails, toLowerCase(emailInFrom))

\* the date of a block: the first Date:/Sent: of the block, parsed
BlockDate(block) ==
    LET dateMatch == HeaderExec(block, DateKeys, 1)
    IN  IF dateMatch.found THEN parseDateString(Trim(dateMatch.value)) ELSE NULL

\* First pass: the blocks in loop order; a block without From: and a block
\* whose From: is a self address are passed over, the first other block
\* ends the function
RECURSIVE FirstPass(_, _)
FirstPass(blocks, selfEmails) ==
    IF blocks = <<>> THEN NoResult
    ELSE LET block == Head(blocks).str
             fromMatch == HeaderExec(block, FromKeys, 1)
             fromValue == Trim(fromMatch.value)
         IN  IF ~fromMatch.found \/ IsSelf(fromValue, selfEmails)
             THEN FirstPass(Tail(blocks), selfEmails)
             ELSE [found |-> TRUE, originalFrom |-> fromValue,
                   originalDate |-> BlockDate(block)]

\* Second pass, the exec loop over /From:\s*(.+?)(?:\n|$)/gim from index k:
\* the first From: whose address is not a self address
RECURSIVE LooseFrom(_, _, _)
LooseFrom(s, k, selfEmails) ==
    LET match == HeaderExec(s, FromKeys, k)
    IN  IF ~match.found THEN NoMatch
        ELSE IF IsSelf(Trim(match.value), selfEmails)
             THEN LooseFrom(s, match.last + 1, selfEmails)
             ELSE match

\* a second pass that looks for the date in the whole text: a mutant
SecondPassWholeText(s, selfEmails) ==
    LET match == LooseFrom(s, 1, selfEmails)
        originalFrom == IF match.found THEN Trim(match.value) ELSE NULL
        dateMatch == HeaderExec(s, DateKeys, 1)
    IN  [found |-> match.found,
         originalFrom |-> originalFrom,
         originalDate |->
            IF originalFrom # NULL /\ originalFrom # <<>> /\ dateMatch.found
            THEN parseDateString(Trim(dateMatch.value))
            ELSE NULL]

\* Second pass
SecondPass(s, selfEmails) ==
    LET match == LooseFrom(s, 1, selfEmails)
        originalFrom == IF match.found THEN Trim(match.value) ELSE NULL
        fromPosition == IF match.found THEN match.index - 1 ELSE -1
        dateMatch == HeaderExec(SliceFrom(s, fromPosition), DateKeys, 1)
    IN  [found |-> match.found,
         originalFrom |-> originalFrom,
         originalDate |->
            IF originalFrom # NULL /\ originalFrom # <<>> /\ fromPosition >= 0
               /\ dateMatch.found
            THEN parseDateString(Trim(dateMatch.value))
            ELSE NULL]

\* parseForwardedHeaders as it was before header blocks were introduced
\* (parse.js 57-95): every From: line scanned, the date taken from the first
\* Date:/Sent: of the whole text and parsed as it stands: a mutant
parseForwardedHeadersFlat(txt, allowed) ==
    IF txt = NULL \/ txt = <<>> THEN [originalFrom |-> NULL, originalDate |-> NULL]
    ELSE LET match == LooseFrom(txt, 1, SelfEmails(allowed))
             dateMatch == HeaderExec(txt, DateKeys, 1)
         IN  [originalFrom |-> IF match.found THEN Trim(match.value) ELSE NULL,
              originalDate |-> IF dateMatch.found
                               THEN parseDateStringRaw(Trim(dateMatch.value))
                               ELSE NULL]

\* parseForwardedHeaders (the version with header blocks)
parseForwardedHeaders(txt, allowed) ==
    IF txt = NULL \/ txt = <<>> THEN [originalFrom |-> NULL, originalDate |-> NULL]
    ELSE LET selfEmails == SelfEmails(allowed)
             first == FirstPass(BlocksFrom(txt, 1), selfEmails)
             second == SecondPass(txt, selfEmails)
             r == IF first.found THEN first ELSE second
         IN  [originalFrom |-> r.originalFrom, originalDate |-> r.originalDate]

----------------------------------------------------------------------------
(* Subjects handed to parseSubject *)

MaxPrefixes == 2
LongTokenLen == 52

RECURSIVE Repeat(_, _)
Repeat(c, n) == IF n = 0 THEN <<>> ELSE <<c>> \o Repeat(c, n - 1)

RECURSIVE Flatten(_)
Flatten(ss) == IF ss = <<>> THEN <<>> ELSE Head(ss) \o Flatten(Tail(ss))

SeqsUpTo(S, n) == UNION {[1..k -> S] : k \in 0..n}

LeadOpts == { <<>>, <<" ">> }

TagOpts ==
    { <<>>,
      <<"#","a","c","m","e",":"," ">>,
      <<"#","A","c","M","e"," ">>,
      <<"#","t","_","c","9",":">>,
      <<"#","_","_",":"," ">>,
      <<"#"," ">>,
      <<"#">> \o Repeat("a", LongTokenLen) \o <<":"," ">>,
      <<"#","_">> \o Repeat("B", LongTokenLen) \o <<" ">> }

PrefixOpts ==
    { <<"F","w","d",":"," ">>,
      <<"F","W",":">>,
      <<"r","e",":"," "," ">>,
      <<"R","e","p","l","y",":"," ">> }

RestOpts ==
    { <<>>,
      <<"H","e","l","l","o">>,
      <<"Q","4"," ","I","n","v"," ">>,
      <<"R","e","e","f",":"," ","x">>,
      <<"a"," ","R","e",":"," ","b">> }

SubjectInputs ==
    {NULL} \cup
    { l \o t \o Flatten(ch) \o r :
        l \in LeadOpts, t \in TagOpts, ch \in SeqsUpTo(PrefixOpts, MaxPrefixes),
        r \in RestOpts }

NoParse == [threw |-> FALSE, client |-> <<>>, subject |-> <<>>]
NoFwd == [originalFrom |-> NULL, originalDate |-> NULL]

InitSubject ==
    /\ pc = "start"
    /\ subject \in SubjectInputs
    /\ parsed = NoParse
    /\ text = <<>>
    /\ allowedSenders = <<>>
    /\ fwd = NoFwd
    /\ stripped = <<>>
    /\ restripped = <<>>
    /\ IdleConvert
    /\ IdleAttach
    /\ IdleHandler
    /\ IdleLater

\* const parsed = parseSubject(body.Subject)
ParseSubject ==
    /\ pc = "start"
    /\ parsed' = parseSubject(subject)
    /\ pc' = "done"
    /\ UNCHANGED <<subject, text, allowedSenders, fwd, stripped, restripped,
                   convertVars, attachVars, handlerVars, laterVars>>

NextSubject == ParseSubject

SpecSubject == InitSubject /\ [][NextSubject]_vars

----------------------------------------------------------------------------
(* Body texts handed to parseForwardedHeaders *)

MaxSegments == 2

\* pieces of forwarded mail; m@x is the archiving user's own address
SegGmailSelf == <<"-","-","-","-","-","F","o","r","w","a","r","d","e","d"," ","m","e","s","s","a","g","e","-","-","-","-","-","\n","F","r","o","m",":"," ","M","e"," ","<","m","@","x",">","\n","D","a","t","e",":"," ","2","0","2","4","-","1","2","-","1","0","\n","\n">>
SegGmailExt == <<"-","-","-","-","-"," ","F","o","r","w","a","r","d","e","d"," ","m","e","s","s","a","g","e"," ","-","-","-","-","-","\n","F","r","o","m",":"," ","J"," ","<","j","@","y",">","\n","D","a","t","e",":"," ","2","0","2","4","-","1","2","-","0","9","\n","\n">>
SegGmailNoDate == <<"-","-","-","-","-","f","o","r","w","a","r","d","e","d"," ","m","e","s","s","a","g","e","-","-","-","-","-","\n","S","u","b","j","e","c","t",":"," ","s","\n","F","r","o","m",":"," ","k","@","z","\n">>
SegOutlookExt == <<"_","_","_","_","_","\n","F","r","o","m",":"," ","o","@","w","\n","S","e","n","t",":"," ","2","0","2","4","-","1","2","-","0","8"," ","a","t"," ","1","0",":","3","0","\n","\n">>
SegOutlookSelf == <<"_","_","_","_","_","_","_","\n","F","R","O","M",":"," ","M","@","X","\n","S","e","n","t",":"," ","2","0","2","4","-","1","2","-","1","1","\n">>
SegAppleExt == <<"B","e","g","i","n"," ","f","o","r","w","a","r","d","e","d"," ","m","e","s","s","a","g","e",":","\n","\n","F","r","o","m",":"," ","a","@","v","\n","D","a","t","e",":"," ","M","o","n",","," ","2","0","2","4","-","1","2","-","0","7","\n","\n">>
SegWroteExt == <<"O","n"," ","2","0","2","4","-","1","2","-","0","6"," ","J"," ","<","j","@","y",">"," ","w","r","o","t","e",":","\n",">"," ","h","i","\n","\n">>
SegWroteFrom == <<"O","n"," ","2","0","2","4","-","1","2","-","0","5"," ","p","@","q"," ","w","r","o","t","e",":","\n","F","r","o","m",":"," ","p","@","q","\n","S","e","n","t",":"," ","s","o","o","n","\n","\n">>
SegLooseSelf == <<"F","r","o","m",":"," ","m","@","x","\n","S","e","n","t",":"," ","s","o","o","n","\n">>
SegLooseDate == <<"D","a","t","e",":"," ","2","0","2","4","-","1","2","-","0","4","\n">>
SegNoAddress == <<"F","r","o","m",":"," ","N","o","b","o","d","y","\n","\n">>
SegText == <<"h","i","\n","\n">>

Segments ==
    { SegGmailSelf, SegGmailExt, SegGmailNoDate, SegOutlookExt, SegOutlookSelf,
      SegAppleExt, SegWroteExt, SegWroteFrom, SegLooseSelf, SegLooseDate,
      SegNoAddress, SegText }

BodyTexts == {NULL} \cup { Flatten(ss) : ss \in SeqsUpTo(Segments, MaxSegments) }

AllowedOpts == { << <<"m","@","x">> >>, << <<"S","@","x">>, <<"M","@","X">> >>, << >> }

InitForward ==
    /\ pc = "start"
    /\ subject = <<>>
    /\ parsed = NoParse
    /\ text \in BodyTexts
    /\ allowedSenders \in AllowedOpts
    /\ fwd = NoFwd
    /\ stripped = <<>>
    /\ restripped = <<>>
    /\ IdleConvert
    /\ IdleAttach
    /\ IdleHandler
    /\ IdleLater

\* const { originalFrom, originalDate } = parseForwardedHeaders(emailText, config.allowedSenders)
ParseForwardedHeaders ==
    /\ pc = "start"
    /\ fwd' = parseForwardedHeaders(text, allowedSenders)
    /\ pc' = "done"
    /\ UNCHANGED <<subject, parsed, text, allowedSenders, stripped, restripped,
                   convertVars, attachVars, handlerVars, laterVars>>

NextForward == ParseForwardedHeaders

SpecForward == InitForward /\ [][NextForward]_vars

----------------------------------------------------------------------------
(* stripForwardingHeaders *)

ORIGINALMSG == <<"O","r","i","g","i","n","a","l"," ","M","e","s","s","a","g","e">>
SUBJECTKEY == <<"S","u","b","j","e","c","t",":">>
TOKEY == <<"T","o",":">>
CCKEY == <<"C","c",":">>

\* ^ under the m flag at index j
AtLineStart(s, j) == j = 1 \/ s[j - 1] = "\n"

\* \s*\n from index h: the index after the match, 0 when it does not match.
\* The greedy \s* runs to the first non-space character and gives back up to
\* the last "\n" of the run.
SpaceThenNewline(s, h) ==
    LET w == SkipSpace(s, h)
        nl == {n \in h..(w - 1) : s[n] = "\n"}
    IN  IF nl = {} THEN 0 ELSE (CHOOSE n \in nl : \A m \in nl : m <= n) + 1

\* (Key:.*\n)? at index p: the index after the line when the key stands at
\* p and the line ends in "\n", p itself otherwise
OptionalLine(s, p, key) ==
    IF MatchLitCI(s, p, key) /\ LineEnd(s, p) <= Len(s) THEN LineEnd(s, p) + 1 ELSE p

\* the optional header lines of a marker, each at most once, in the order
\* the regular expression lists them
RECURSIVE OptionalLines(_, _, _)
OptionalLines(s, p, keys) ==
    IF keys = <<>> THEN p
    ELSE OptionalLines(s, OptionalLine(s, p, Head(keys)), Tail(keys))

\* -{3,}\s*Original Message\s*-{3,} tried at index i
OriginalHead(s, i) ==
    LET d  == SkipChar(s, i, "-")
        w  == SkipSpace(s, d)
        w2 == SkipSpace(s, w + Len(ORIGINALMSG))
        d2 == SkipChar(s, w2, "-")
    IN  IF d - i >= 3 /\ MatchLitCI(s, w, ORIGINALMSG) /\ d2 - w2 >= 3 THEN d2 ELSE 0

\* the greedy .+ of /^On .+wrote:\s*$/: the index of the last 'wrote:' of
\* the line that starts with 'On ' at index i, 0 when the line has none
LastWrote(s, i) ==
    LET c == {q \in (i + Len(ONSPACE) + 1)..(LineEnd(s, i) - Len(WROTE)) :
                 MatchLitCI(s, q, WROTE)}
    IN  IF c = {} THEN 0 ELSE CHOOSE q \in c : \A r \in c : r <= q

\* \s*$ under the m flag from index a: the index of the last character
\* matched (a - 1 when \s* matches nothing), -1 when it does not match.
\* The greedy \s* runs to the end of the text, or gives back up to the last
\* "\n" of the run, in front of which $ holds.
SpaceThenLineEnd(s, a) ==
    LET w == SkipSpace(s, a)
        nl == {n \in a..(w - 1) : s[n] = "\n"}
    IN  IF w = Len(s) + 1 THEN Len(s)
        ELSE IF nl = {} THEN -1
        ELSE (CHOOSE n \in nl : \A m \in nl : m <= n) - 1

\* /^On .+\s*$/gim, the pattern without its 'wrote:': a mutant
WroteLineEndAnyOn(s, i) ==
    IF MatchLitCI(s, i, ONSPACE) /\ LineEnd(s, i) > i + Len(ONSPACE)
    THEN LineEnd(s, i) - 1 ELSE 0

\* /^On .+wrote:\s*$/gim tried at index i: the index of the last character
\* of the match, 0 when it does not match
WroteLineEnd(s, i) ==
    LET q == IF MatchLitCI(s, i, ONSPACE) THEN LastWrote(s, i) ELSE 0
        e == SpaceThenLineEnd(s, q + Len(WROTE))
    IN  IF q = 0 \/ e = -1 THEN 0 ELSE e

\* the five patterns of stripForwardingHeaders tried at index i: the index
\* of the last character of the match, 0 when the pattern does not match
StripMatchEnd(s, i, k) ==
    LET head == CASE k = 1 -> GmailHead(s, i)
                  [] k = 2 -> OutlookHead(s, i)
                  [] k = 3 -> AppleHead(s, i)
                  [] k = 4 -> OriginalHead(s, i)
                  [] OTHER -> 0
        body == IF head = 0 THEN 0 ELSE SpaceThenNewline(s, head)
        \* \n? of the Apple Mail pattern
        p == IF k = 3 /\ body # 0 /\ body <= Len(s) /\ s[body] = "\n"
             THEN body + 1 ELSE body
        keys == CASE k = 1 -> <<FROMKEY, DATEKEY, SUBJECTKEY, TOKEY, CCKEY>>
                  [] k = 2 -> <<FROMKEY, SENTKEY, TOKEY, CCKEY, SUBJECTKEY>>
                  [] k = 3 -> <<FROMKEY, SUBJECTKEY, DATEKEY, TOKEY, CCKEY>>
                  [] k = 4 -> <<FROMKEY, SENTKEY, TOKEY, SUBJECTKEY>>
                  [] OTHER -> <<>>
    IN  IF ~AtLineStart(s, i) THEN 0
        ELSE IF k = 5 THEN WroteLineEnd(s, i)
        ELSE IF body = 0 THEN 0
        ELSE OptionalLines(s, p, keys) - 1

\* result.replace(pattern k, '') with the g flag, from index i on: every
\* match, left to right, is taken out
RECURSIVE ReplaceAll(_, _, _)
ReplaceAll(s, i, k) ==
    LET starts == {j \in i..Len(s) : StripMatchEnd(s, j, k) # 0}
    IN  IF starts = {} THEN SubSeq(s, i, Len(s))
        ELSE LET j == MinOf(starts)
             IN  SubSeq(s, i, j - 1) \o ReplaceAll(s, StripMatchEnd(s, j, k) + 1, k)

NumStripPatterns == 5

\* the replace calls one after the other, pattern k first
RECURSIVE ReplaceFrom(_, _)
ReplaceFrom(s, k) ==
    IF k > NumStripPatterns THEN s
    ELSE ReplaceFrom(ReplaceAll(s, 1, k), k + 1)

\* stripForwardingHeaders
stripForwardingHeaders(txt) ==
    IF txt = NULL \/ txt = <<>> THEN <<>> ELSE Trim(ReplaceFrom(txt, 1))

----------------------------------------------------------------------------
(* Body texts handed to stripForwardingHeaders *)

MaxPieces == 3

StripPieces ==
    { <<" ">>,
      <<"\n">>,
      <<"h","i","\n">>,
      <<"O","n"," ","M","o","n","d","a","y"," ","w","e"," ","m","e","t","\n">>,
      <<"F","r","o","m",":"," ","a","@","b","\n">>,
      <<"D","a","t","e",":"," ","2","0","2","4","-","1","2","-","0","9","\n">>,
      <<"-","-","-","-","-","-","-","-","-","-"," ","F","o","r","w","a","r","d","e","d"," ","m","e","s","s","a","g","e"," ","-","-","-","-","-","-","-","-","-","\n">>,
      <<"-","-","-","-","-","\n">>,
      <<"F","o","r","w","a","r","d","e","d"," ","m","e","s","s","a","g","e","-","-","-","-","-","\n">>,
      <<"_","_","_","_","_","\n">>,
      <<"B","e","g","i","n"," ","f","o","r","w","a","r","d","e","d"," ","m","e","s","s","a","g","e",":","\n">>,
      <<"-","-","-","O","r","i","g","i","n","a","l"," ","M","e","s","s","a","g","e","-","-","-","\n">>,
      <<"O","n"," ","2","0","2","4","-","1","2","-","0","9"," ","J"," ","<","j","@","y",">"," ","w","r","o","t","e",":","\n">> }

StripTexts == {NULL} \cup { Flatten(ss) : ss \in SeqsUpTo(StripPieces, MaxPieces) }

InitStrip ==
    /\ pc = "start"
    /\ subject = <<>>
    /\ parsed = NoParse
    /\ text \in StripTexts
    /\ allowedSenders = <<>>
    /\ fwd = NoFwd
    /\ stripped = <<>>
    /\ restripped = <<>>
    /\ IdleConvert
    /\ IdleAttach
    /\ IdleHandler
    /\ IdleLater

\* const cleanedTextBody = stripForwardingHeaders(emailText)
StripForwardingHeaders ==
    /\ pc = "start"
    /\ stripped' = stripForwardingHeaders(text)
    /\ pc' = "stripped"
    /\ UNCHANGED <<subject, parsed, text, allowedSenders, fwd, restripped,
                   convertVars, attachVars, handlerVars, laterVars>>

\* stripForwardingHeaders applied to its own result
StripAgain ==
    /\ pc = "stripped"
    /\ restripped' = stripForwardingHeaders(stripped)
    /\ pc' = "done"
    /\ UNCHANGED <<subject, parsed, text, allowedSenders, fwd, stripped,
                   convertVars, attachVars, handlerVars, laterVars>>

NextStrip == StripForwardingHeaders \/ StripAgain

SpecStrip == InitStrip /\ [][NextStrip]_vars

----------------------------------------------------------------------------
(* convert.js: linkifyUrls and chunkText *)

HTTP == <<"h","t","t","p",":","/","/">>
HTTPS == <<"h","t","t","p","s",":","/","/">>

\* The literal lit stands in s at index i (case-sensitive)
MatchLit(s, i, lit) ==
    /\ i >= 1
    /\ i + Len(lit) - 1 <= Len(s)
    /\ \A k \in 1..Len(lit) : s[i + k - 1] = lit[k]

\* [^\s\]\)]
IsUrlChar(c) == ~IsSpace(c) /\ c # "]" /\ c # ")"

\* Index of the first character at or after i that is not [^\s\]\)]
RECURSIVE SkipUrlChars(_, _)
SkipUrlChars(s, i) ==
    IF i <= Len(s) /\ IsUrlChar(s[i]) THEN SkipUrlChars(s, i + 1) ELSE i

\* (?<!\]\()(?<!\[): neither "](" nor "[" stands right before index i
NotInLink(s, i) ==
    /\ ~(i >= 3 /\ s[i - 2] = "]" /\ s[i - 1] = "(")
    /\ ~(i >= 2 /\ s[i - 1] = "[")

\* urlPattern tried at index i: the index of the last character of the
\* match, 0 when it does not match
UrlEnd(s, i) ==
    LET k == IF MatchLit(s, i, HTTPS) THEN Len(HTTPS)
             ELSE IF MatchLit(s, i, HTTP) THEN Len(HTTP) ELSE 0
    IN  IF k = 0 \/ ~NotInLink(s, i) THEN 0
        ELSE IF i + k <= Len(s) /\ IsUrlChar(s[i + k])
             THEN SkipUrlChars(s, i + k) - 1 ELSE 0

\* '[$1]($1)'
SelfLink(url) == <<"[">> \o url \o <<"]", "(">> \o url \o <<")">>

\* text.replace(urlPattern, '[$1]($1)') from index i on
RECURSIVE LinkifyFrom(_, _)
LinkifyFrom(s, i) ==
    LET starts == {j \in i..Len(s) : UrlEnd(s, j) # 0}
    IN  IF starts = {} THEN SubSeq(s, i, Len(s))
        ELSE LET j == MinOf(starts)
                 e == UrlEnd(s, j)
             IN  SubSeq(s, i, j - 1) \o SelfLink(SubSeq(s, j, e))
                    \o LinkifyFrom(s, e + 1)

\* linkifyUrls
linkifyUrls(txt) ==
    IF txt = NULL \/ txt = <<>> THEN <<>> ELSE LinkifyFrom(txt, 1)

\* remaining.lastIndexOf(c, fromIndex), indices counted from 0
lastIndexOf(s, c, fromIndex) ==
    LET hits == {k \in 0..(Len(s) - 1) : k <= fromIndex /\ s[k + 1] = c}
    IN  IF hits = {} THEN -1 ELSE CHOOSE k \in hits : \A h \in hits : h <= k

\* String.prototype.trimStart
trimStart(s) == SliceFrom(s, SkipSpace(s, 1) - 1)

\* the break point without the test against maxLength / 2: a mutant
BreakPointAnywhere(remaining, maxLen) ==
    LET nl == lastIndexOf(remaining, "\n", maxLen)
        sp == IF nl = -1 THEN lastIndexOf(remaining, " ", maxLen) ELSE nl
    IN  IF sp = -1 THEN maxLen ELSE sp

\* the break point looked for in the whole of remaining, lastIndexOf called
\* without its second argument: a mutant
BreakPointNoLimit(remaining, maxLen) ==
    LET nl == lastIndexOf(remaining, "\n", Len(remaining))
        sp == IF nl = -1 \/ 2 * nl < maxLen
              THEN lastIndexOf(remaining, " ", Len(remaining)) ELSE nl
    IN  IF sp = -1 \/ 2 * sp < maxLen THEN maxLen ELSE sp

\* the break point chunkText chooses for a text longer than maxLen; the
\* test breakPoint < maxLength / 2 is written without the division
BreakPoint(remaining, maxLen) ==
    LET nl == lastIndexOf(remaining, "\n", maxLen)
        sp == IF nl = -1 \/ 2 * nl < maxLen
              THEN lastIndexOf(remaining, " ", maxLen) ELSE nl
    IN  IF sp = -1 \/ 2 * sp < maxLen THEN maxLen ELSE sp

\* chunkText with the rest taken from behind the break point, as if the
\* break always stood on a separator: a mutant
RECURSIVE chunkTextSkipBreak(_, _)
chunkTextSkipBreak(remaining, maxLen) ==
    IF Len(remaining) = 0 THEN <<>>
    ELSE IF Len(remaining) <= maxLen THEN <<remaining>>
    ELSE LET breakPoint == BreakPoint(remaining, maxLen)
         IN  <<SubSeq(remaining, 1, breakPoint)>>
                \o chunkTextSkipBreak(trimStart(SliceFrom(remaining, breakPoint + 1)),
                                      maxLen)

\* chunkText (maxLen >= 1)
RECURSIVE chunkText(_, _)
chunkText(remaining, maxLen) ==
    IF Len(remaining) = 0 THEN <<>>
    ELSE IF Len(remaining) <= maxLen THEN <<remaining>>
    ELSE LET breakPoint == BreakPoint(remaining, maxLen)
         IN  <<SubSeq(remaining, 1, breakPoint)>>
                \o chunkText(trimStart(SliceFrom(remaining, breakPoint)), maxLen)

----------------------------------------------------------------------------
(* convert.js: parseFormattedText and parseRichText *)

BOLD == <<"*","*">>
STAR == <<"*">>
UNDERSCORE == <<"_">>
STRIKE == <<"~","~">>
\* the character U+0060, which a TLA+ string cannot hold, has a token of its own
BT == "bt"
BACKTICK == <<BT>>

\* m(.+?)m tried at index i, for a marker m: the index where the closing
\* marker starts, 0 when the pattern does not match at i
MarkedEnd(s, i, m) ==
    LET cands == {j \in (i + Len(m) + 1)..(Len(s) - Len(m) + 1) :
                     /\ MatchLit(s, j, m)
                     /\ \A h \in (i + Len(m))..(j - 1) : s[h] # "\n"}
    IN  IF MatchLit(s, i, m) /\ cands # {} THEN MinOf(cands) ELSE 0

\* /m(.+?)m/.test(s)
TestMarked(s, m) == \E i \in 1..Len(s) : MarkedEnd(s, i, m) # 0

\* s.replace(/m(.+?)m/g, '$1') from index i on
RECURSIVE ReplaceMarkedFrom(_, _, _)
ReplaceMarkedFrom(s, i, m) ==
    LET starts == {j \in i..Len(s) : MarkedEnd(s, j, m) # 0}
    IN  IF starts = {} THEN SubSeq(s, i, Len(s))
        ELSE LET j == MinOf(starts)
                 e == MarkedEnd(s, j, m)
             IN  SubSeq(s, i, j - 1) \o SubSeq(s, j + Len(m), e - 1)
                    \o ReplaceMarkedFrom(s, e + Len(m), m)

ReplaceMarked(s, m) == ReplaceMarkedFrom(s, 1, m)

\* a rich text object: text.content, text.link.url (NULL without a link)
\* and the keys of annotations that are set
RichTextObj(content, url, annotations) ==
    [content |-> content, link |-> url, annotations |-> annotations]

\* a step that sets an annotation only when none is set yet: a mutant
FormatStepFirstOnly(r, m, name) ==
    IF TestMarked(r.content, m)
    THEN [content |-> ReplaceMarked(r.content, m),
          annotations |-> IF r.annotations = {} THEN {name} ELSE r.annotations]
    ELSE r

\* one step of parseFormattedText on r, the content and the annotations so
\* far: if (/m(.+?)m/.test(content)) { content = content.replace(...);
\* annotations[name] = true }
FormatStep(r, m, name) ==
    IF TestMarked(r.content, m)
    THEN [content |-> ReplaceMarked(r.content, m),
          annotations |-> r.annotations \cup {name}]
    ELSE r

\* the italic step of parseFormattedText: either marker sets the annotation
\* and both are then replaced
ItalicStep(r) ==
    IF TestMarked(r.content, STAR) \/ TestMarked(r.content, UNDERSCORE)
    THEN [content |-> ReplaceMarked(ReplaceMarked(r.content, STAR), UNDERSCORE),
          annotations |-> r.annotations \cup {"italic"}]
    ELSE r

\* the content and the annotations parseFormattedText ends with
Formatted(txt) ==
    FormatStep(
        FormatStep(
            ItalicStep(FormatStep([content |-> txt, annotations |-> {}],
                                  BOLD, "bold")),
            STRIKE, "strikethrough"),
        BACKTICK, "code")

\* what parseFormattedText returns for the content and annotations r
FormattedResult(r) ==
    IF r.content = <<>> THEN <<>>
    ELSE <<RichTextObj(r.content, NULL, r.annotations)>>

\* parseFormattedText
parseFormattedText(txt) ==
    IF txt = <<>> THEN <<>> ELSE FormattedResult(Formatted(txt))

\* linkPattern /\[([^\]]+)\]\(([^)]+)\)/ tried at index i: the indices of
\* the "]" and of the closing ")"; found is FALSE when it does not match
LinkMatch(s, i) ==
    LET closes == {j \in (i + 1)..Len(s) : s[j] = "]"}
        j == IF closes = {} THEN 0 ELSE MinOf(closes)
        parens == {k \in (j + 2)..Len(s) : s[k] = ")"}
        k == IF parens = {} THEN 0 ELSE MinOf(parens)
    IN  IF /\ i <= Len(s) /\ s[i] = "["
           /\ j >= i + 2
           /\ j + 1 <= Len(s) /\ s[j + 1] = "("
           /\ k >= j + 3
        THEN [found |-> TRUE, close |-> j, last |-> k]
        ELSE [found |-> FALSE, close |-> 0, last |-> 0]

\* the while loop of parseRichText from lastIndex (counted from 0) on, and
\* the text after the last link
RECURSIVE RichFrom(_, _)
RichFrom(remaining, lastIndex) ==
    LET starts == {i \in (lastIndex + 1)..Len(remaining) :
                      LinkMatch(remaining, i).found}
    IN  IF starts = {}
        THEN parseFormattedText(SliceFrom(remaining, lastIndex))
        ELSE LET i == MinOf(starts)
                 m == LinkMatch(remaining, i)
             IN  parseFormattedText(SubSeq(remaining, lastIndex + 1, i - 1))
                    \o <<RichTextObj(SubSeq(remaining, i + 1, m.close - 1),
                                     SubSeq(remaining, m.close + 2, m.last - 1),
                                     {})>>
                    \o RichFrom(remaining, m.last)

\* parseRichText
parseRichText(txt) ==
    IF txt = NULL \/ txt = <<>> THEN <<>>
    ELSE LET found == RichFrom(txt, 0)
         IN  IF found = <<>> THEN parseFormattedText(txt) ELSE found

----------------------------------------------------------------------------
(* convert.js: markdownToBlocks *)

\* the default of chunkText's maxLength (2000 in convert.js), scaled down
ChunkLimit == 8

FENCE == <<BT, BT, BT>>
PLAINTEXT == "plain text"

\* markdown.split('\n') from index i on
RECURSIVE SplitLines(_, _)
SplitLines(s, i) ==
    LET e == LineEnd(s, i)
    IN  IF e > Len(s) THEN <<SubSeq(s, i, Len(s))>>
        ELSE <<SubSeq(s, i, e - 1)>> \o SplitLines(s, e + 1)

\* codeLines.join('\n')
RECURSIVE JoinLines(_)
JoinLines(ls) ==
    IF ls = <<>> THEN <<>>
    ELSE IF Len(ls) = 1 THEN ls[1]
    ELSE ls[1] \o <<"\n">> \o JoinLines(Tail(ls))

\* a block: its type, the rich_text of its body (empty for a divider) and,
\* for a code block, its language
Block(type, rich) == [type |-> type, rich_text |-> rich, language |-> NULL]
CodeBlock(chunk) ==
    [type |-> "code", rich_text |-> <<RichTextObj(chunk, NULL, {})>>,
     language |-> PLAINTEXT]

\* line.match(/^(#{1,3})\s+(.+)$/): level is 0 when the line does not match
HeadingMatch(line) ==
    LET n == SkipChar(line, 1, "#") - 1
        w == SkipSpace(line, n + 1)
    IN  IF n \in 1..3 /\ w > n + 1 /\ w <= Len(line)
        THEN [level |-> n, text |-> SubSeq(line, w, Len(line))]
        ELSE IF n \in 1..3 /\ w > n + 2
        THEN [level |-> n, text |-> SubSeq(line, Len(line), Len(line))]
        ELSE [level |-> 0, text |-> <<>>]

HeadingType(level) ==
    CASE level = 1 -> "heading_1" [] level = 2 -> "heading_2" [] OTHER -> "heading_3"

\* /^(-{3,}|_{3,}|\*{3,})$/.test(line.trim())
IsRule(line) ==
    LET t == Trim(line)
    IN  /\ Len(t) >= 3
        /\ t[1] \in {"-", "_", "*"}
        /\ \A i \in 1..Len(t) : t[i] = t[1]

\* /^[-*+]\s+/ : the length of the match, 0 when the line does not match
BulletMatch(line) ==
    IF Len(line) >= 2 /\ line[1] \in {"-", "*", "+"} /\ IsSpace(line[2])
    THEN SkipSpace(line, 2) - 1 ELSE 0

\* Index of the first character at or after i that is not \d
RECURSIVE SkipDigits(_, _)
SkipDigits(s, i) ==
    IF i <= Len(s) /\ s[i] \in Digits THEN SkipDigits(s, i + 1) ELSE i

\* /^\d+\.\s+/ : the length of the match, 0 when the line does not match
NumberedMatch(line) ==
    LET d == SkipDigits(line, 1)
    IN  IF d > 1 /\ d + 1 <= Len(line) /\ line[d] = "." /\ IsSpace(line[d + 1])
        THEN SkipSpace(line, d + 1) - 1 ELSE 0

\* the dispatch without the rule that skips empty quotes: a mutant
NoEmptyQuote(line) == FALSE

\* /^[\s>]+$/.test(line)
IsEmptyQuote(line) ==
    /\ Len(line) >= 1
    /\ \A i \in 1..Len(line) : IsSpace(line[i]) \/ line[i] = ">"

\* the index of the first line at or after i that starts with the fence,
\* Len(lines)+1 when there is none
RECURSIVE FenceClose(_, _)
FenceClose(lines, i) ==
    IF i <= Len(lines) /\ ~MatchLit(lines[i], 1, FENCE)
    THEN FenceClose(lines, i + 1) ELSE i

\* the blocks chunkText's chunks become: paragraphs or code blocks
ParagraphBlocks(cs) == [k \in 1..Len(cs) |-> Block("paragraph", parseRichText(cs[k]))]
CodeBlocks(cs) == [k \in 1..Len(cs) |-> CodeBlock(cs[k])]

\* the while loop of markdownToBlocks from line i (counted from 1) on
RECURSIVE BlocksOfLines(_, _)
BlocksOfLines(lines, i) ==
    IF i > Len(lines) THEN <<>>
    ELSE LET line == lines[i]
             headingMatch == HeadingMatch(line)
         IN  IF Trim(line) = <<>> THEN BlocksOfLines(lines, i + 1)
             ELSE IF headingMatch.level # 0
             THEN <<Block(HeadingType(headingMatch.level),
                          parseRichText(headingMatch.text))>>
                     \o BlocksOfLines(lines, i + 1)
             ELSE IF IsRule(line)
             THEN <<Block("divider", <<>>)>> \o BlocksOfLines(lines, i + 1)
             ELSE IF BulletMatch(line) # 0
             THEN <<Block("bulleted_list_item",
                          parseRichText(SliceFrom(line, BulletMatch(line))))>>
                     \o BlocksOfLines(lines, i + 1)
             ELSE IF NumberedMatch(line) # 0
             THEN <<Block("numbered_list_item",
                          parseRichText(SliceFrom(line, NumberedMatch(line))))>>
                     \o BlocksOfLines(lines, i + 1)
             ELSE IF IsEmptyQuote(line) THEN BlocksOfLines(lines, i + 1)
             ELSE IF line[1] = ">"
             THEN <<Block("quote",
                          parseRichText(SliceFrom(line, SkipSpace(line, 2) - 1)))>>
                     \o BlocksOfLines(lines, i + 1)
             ELSE IF MatchLit(line, 1, FENCE)
             THEN LET close == FenceClose(lines, i + 1)
                      codeContent == JoinLines(SubSeq(lines, i + 1, close - 1))
                  IN  CodeBlocks(chunkText(codeContent, ChunkLimit))
                         \o BlocksOfLines(lines, close + 1)
             ELSE ParagraphBlocks(chunkText(line, ChunkLimit))
                     \o BlocksOfLines(lines, i + 1)

\* markdownToBlocks
markdownToBlocks(md) ==
    IF md = NULL \/ md = <<>> THEN <<>> ELSE BlocksOfLines(SplitLines(md, 1), 1)

----------------------------------------------------------------------------
(* convert.js: stripBeforeForwardedMessage and processEmailBody *)

NumMarkers == 4

\* the four markers of stripBeforeForwardedMessage tried at index i: the
\* index after the match, 0 when marker k does not match here
MarkerEnd(s, i, k) ==
    CASE k = 1 -> GmailHead(s, i)
      [] k = 2 -> AppleHead(s, i)
      [] k = 3 -> OriginalHead(s, i)
      [] OTHER -> OutlookHead(s, i)

\* the for loop over markers from marker k on: the text after the first
\* match of the first marker that matches, the whole text when none does
RECURSIVE AfterMarker(_, _)
AfterMarker(s, k) ==
    LET starts == {i \in 1..Len(s) : MarkerEnd(s, i, k) # 0}
    IN  IF k > NumMarkers THEN s
        ELSE IF starts = {} THEN AfterMarker(s, k + 1)
        ELSE SubSeq(s, MarkerEnd(s, MinOf(starts), k), Len(s))

\* \**\s*$ tried at index c, under the m flag: the index after the match,
\* 0 when it does not match
HeaderTailEnd(s, c) ==
    LET st == SkipChar(s, c, "*")
        d  == SkipSpace(s, st)
        es == {e \in st..d : e = Len(s) + 1 \/ s[e] = "\n"}
    IN  IF es = {} THEN 0 ELSE CHOOSE e \in es : \A f \in es : f <= e

\* .+?\**\s*$ with the lazy .+? starting at index b
HeaderValueEnd(s, b) ==
    LET cs == {c \in (b + 1)..LineEnd(s, b) : HeaderTailEnd(s, c) # 0}
    IN  IF cs = {} THEN 0 ELSE HeaderTailEnd(s, MinOf(cs))

\* /^\s*\**key\s*.+?\**\s*$/im tried at index p: the index after the match,
\* 0 when it does not match
HeaderLineEnd(s, p, key) ==
    LET st == SkipChar(s, SkipSpace(s, p), "*")
        q  == st + Len(key)
        bs == {b \in q..SkipSpace(s, q) :
                  b <= Len(s) /\ s[b] # "\n" /\ HeaderValueEnd(s, b) # 0}
    IN  IF AtLineStart(s, p) /\ MatchLitCI(s, st, key) /\ bs # {}
        THEN HeaderValueEnd(s, CHOOSE b \in bs : \A c \in bs : c <= b)
        ELSE 0

\* result.replace(/^\s*\**key\s*.+?\**\s*$/im, '')
RemoveHeaderLine(s, key) ==
    LET starts == {p \in 1..Len(s) : HeaderLineEnd(s, p, key) # 0}
    IN  IF starts = {} THEN s
        ELSE SubSeq(s, 1, MinOf(starts) - 1)
                \o SubSeq(s, HeaderLineEnd(s, MinOf(starts), key), Len(s))

\* the six replace calls, in their order
HeaderKeys == <<FROMKEY, DATEKEY, SENTKEY, SUBJECTKEY, TOKEY, CCKEY>>

RECURSIVE RemoveHeaderLines(_, _)
RemoveHeaderLines(s, keys) ==
    IF keys = <<>> THEN s
    ELSE RemoveHeaderLines(RemoveHeaderLine(s, Head(keys)), Tail(keys))

\* stripBeforeForwardedMessage
stripBeforeForwardedMessage(txt) ==
    IF txt = NULL \/ txt = <<>> THEN <<>>
    ELSE Trim(RemoveHeaderLines(AfterMarker(txt, 1), HeaderKeys))

\* processEmailBody; htmlMarkdown is what htmlToMarkdown(htmlBody) returned
\* when htmlBody is given, the empty string when it is not
processEmailBody(htmlMarkdown, textBody) ==
    LET md == IF htmlMarkdown # NULL /\ htmlMarkdown # <<>> THEN htmlMarkdown
              ELSE IF textBody = NULL THEN <<>> ELSE textBody
    IN  markdownToBlocks(linkifyUrls(stripBeforeForwardedMessage(md)))

----------------------------------------------------------------------------
(* The convert.js functions under study: inputs, actions, specifications *)

MaxTextLen == 6
MaxChunkArg == 4

\* texts of up to MaxTextLen characters made of a letter, a space and a
\* newline
ChunkTexts == SeqsUpTo({"a", " ", "\n"}, MaxTextLen)

InitChunk ==
    /\ pc = "start"
    /\ subject = <<>>
    /\ parsed = NoParse
    /\ text = <<>>
    /\ allowedSenders = <<>>
    /\ fwd = NoFwd
    /\ stripped = <<>>
    /\ restripped = <<>>
    /\ markdown \in ChunkTexts
    /\ maxLength \in 1..MaxChunkArg
    /\ chunks = <<>>
    /\ contentBlocks = <<>>
    /\ linked = <<>>
    /\ relinked = <<>>
    /\ richText = <<>>
    /\ IdleAttach
    /\ IdleHandler
    /\ IdleLater

parseVars == <<subject, parsed, text, allowedSenders, fwd, stripped, restripped>>

\* const chunks = chunkText(text, maxLength)
ChunkText ==
    /\ pc = "start"
    /\ chunks' = chunkText(markdown, maxLength)
    /\ pc' = "done"
    /\ UNCHANGED <<parseVars, attachVars, handlerVars, laterVars, markdown, maxLength, contentBlocks, linked,
                   relinked, richText>>

NextChunk == ChunkText

SpecChunk == InitChunk /\ [][NextChunk]_vars

MaxLines == 3

\* lines of a Markdown body; the limit of a span is ChunkLimit characters
MarkdownLines ==
    { <<"#"," ","H">>, <<"-"," ","a">>, <<">"," ","q">>, <<>>, FENCE,
      <<"s","e","e"," ","h","t","t","p",":","/","/","a"," ","*","b","*">>,
      <<"a","a","a","a"," ","b","b","b","b"," ","c","c","c","c">>,
      <<"#","#"," ","a","b","c","d","e","f","g","h","i","j">>,
      <<"a","b","c","d","e","f"," "," "," "," "," "," ">>,
      <<"a","b","c","d","e","f","g","h","i","j","k","l","m","n","o","p","q">>,
      <<"-","-","-">>, <<"1","."," ","x">>, <<">">>,
      <<"F","r","o","m",":"," ","a","@","b">> }

\* a heading line, two '- ' lines and a '> ' line separated by blank lines
ExampleMarkdown == <<"#"," ","H","\n","\n","-"," ","a","\n","-"," ","a","\n","\n",">"," ","q">>

MarkdownTexts ==
    {NULL, ExampleMarkdown}
       \cup { JoinLines(ls) : ls \in SeqsUpTo(MarkdownLines, MaxLines) }

InitBlocks ==
    /\ pc = "start"
    /\ subject = <<>>
    /\ parsed = NoParse
    /\ text = <<>>
    /\ allowedSenders = <<>>
    /\ fwd = NoFwd
    /\ stripped = <<>>
    /\ restripped = <<>>
    /\ markdown \in MarkdownTexts
    /\ maxLength = ChunkLimit
    /\ chunks = <<>>
    /\ contentBlocks = <<>>
    /\ linked = <<>>
    /\ relinked = <<>>
    /\ richText = <<>>
    /\ IdleAttach
    /\ IdleHandler
    /\ IdleLater

\* markdownToBlocks(markdown)
MarkdownToBlocks ==
    /\ pc = "start"
    /\ contentBlocks' = markdownToBlocks(markdown)
    /\ pc' = "blocks"
    /\ UNCHANGED <<parseVars, attachVars, handlerVars, laterVars, markdown, maxLength, chunks, linked, relinked,
                   richText>>

\* const contentBlocks = processEmailBody(htmlBody, cleanedTextBody, ...);
\* markdown is the text body or, with an HTML body, what htmlToMarkdown
\* made of it
ProcessEmailBody ==
    /\ pc = "start"
    /\ \E viaHtml \in BOOLEAN :
          contentBlocks' = IF viaHtml THEN processEmailBody(markdown, <<>>)
                           ELSE processEmailBody(<<>>, markdown)
    /\ pc' = "processed"
    /\ UNCHANGED <<parseVars, attachVars, handlerVars, laterVars, markdown, maxLength, chunks, linked, relinked,
                   richText>>

NextBlocks == MarkdownToBlocks \/ ProcessEmailBody

SpecBlocks == InitBlocks /\ [][NextBlocks]_vars

MaxLinkPieces == 4

LinkPieces ==
    { <<"[","s","e","e"," ">>, <<"]","(","h","t","t","p",":","/","/","c",")">>,
      <<"h","t","t","p",":","/","/","a">>, <<"h","t","t","p","s",":","/","/","b">>, <<" ">>, <<"[">>, <<"]","(">>, <<")">>, <<"x">>, <<"?","u","=">> }

LinkTexts == {NULL} \cup { Flatten(ss) : ss \in SeqsUpTo(LinkPieces, MaxLinkPieces) }

InitLinkify ==
    /\ pc = "start"
    /\ subject = <<>>
    /\ parsed = NoParse
    /\ text = <<>>
    /\ allowedSenders = <<>>
    /\ fwd = NoFwd
    /\ stripped = <<>>
    /\ restripped = <<>>
    /\ markdown \in LinkTexts
    /\ maxLength = 0
    /\ chunks = <<>>
    /\ contentBlocks = <<>>
    /\ linked = <<>>
    /\ relinked = <<>>
    /\ richText = <<>>
    /\ IdleAttach
    /\ IdleHandler
    /\ IdleLater

\* markdown = linkifyUrls(markdown)
LinkifyUrls ==
    /\ pc = "start"
    /\ linked' = linkifyUrls(markdown)
    /\ pc' = "linked"
    /\ UNCHANGED <<parseVars, attachVars, handlerVars, laterVars, markdown, maxLength, chunks, contentBlocks,
                   relinked, richText>>

\* linkifyUrls applied to its own result
LinkifyAgain ==
    /\ pc = "linked"
    /\ relinked' = linkifyUrls(linked)
    /\ pc' = "done"
    /\ UNCHANGED <<parseVars, attachVars, handlerVars, laterVars, markdown, maxLength, chunks, contentBlocks,
                   linked, richText>>

NextLinkify == LinkifyUrls \/ LinkifyAgain

SpecLinkify == InitLinkify /\ [][NextLinkify]_vars

MaxRichPieces == 4

RichPieces ==
    { BOLD, STAR, <<"_","_">>, UNDERSCORE, STRIKE, BACKTICK, <<"x">>, <<"y"," ","z">>,
      BACKTICK \o <<"x">> \o BACKTICK }

RichTexts == {NULL} \cup { Flatten(ss) : ss \in SeqsUpTo(RichPieces, MaxRichPieces) }

InitRich ==
    /\ pc = "start"
    /\ subject = <<>>
    /\ parsed = NoParse
    /\ text = <<>>
    /\ allowedSenders = <<>>
    /\ fwd = NoFwd
    /\ stripped = <<>>
    /\ restripped = <<>>
    /\ markdown \in RichTexts
    /\ maxLength = 0
    /\ chunks = <<>>
    /\ contentBlocks = <<>>
    /\ linked = <<>>
    /\ relinked = <<>>
    /\ richText = <<>>
    /\ IdleAttach
    /\ IdleHandler
    /\ IdleLater

\* rich_text: parseRichText(text)
ParseRichText ==
    /\ pc = "start"
    /\ richText' = parseRichText(markdown)
    /\ pc' = "done"
    /\ UNCHANGED <<parseVars, attachVars, handlerVars, laterVars, markdown, maxLength, chunks, contentBlocks,
                   linked, relinked>>

NextRich == ParseRichText

SpecRich == InitRich /\ [][NextRich]_vars

----------------------------------------------------------------------------
(* filterAttachments, attachments.js *)

\* the variables of the parsers when no parser runs
IdleParse ==
    /\ subject = <<>>
    /\ parsed = NoParse
    /\ text = <<>>
    /\ allowedSenders = <<>>
    /\ fwd = NoFwd
    /\ stripped = <<>>
    /\ restripped = <<>>

\* File types that are blocked for security
BLOCKED_EXTENSIONS ==
    { <<"e","x","e">>, <<"d","l","l">>, <<"b","a","t">>, <<"s","h">>,
      <<"c","m","d">>, <<"c","o","m">>, <<"m","s","i">>, <<"v","b","s">>,
      <<"j","s">>, <<"p","s","1">> }

\* Maximum file size (20MB - Notion's limit)
MAX_FILE_SIZE == 20 * 1024 * 1024

UNKNOWN == <<"u","n","k","n","o","w","n">>

\* a string that JavaScript takes for false: undefined, null, ''
Falsy(v) == v = NULL \/ v = <<>>

\* the last element of filename.split('.'), '' without a dot
getExtension(filename) ==
    IF Falsy(filename) THEN <<>>
    ELSE LET dots == {i \in 1..Len(filename) : filename[i] = "."}
         IN  IF dots = {} THEN <<>>
             ELSE LET last == CHOOSE i \in dots : \A j \in dots : j <= i
                  IN  SubSeq(filename, last + 1, Len(filename))

\* const ext = getExtension(filename), without the lower-casing
AttachmentExtRaw(filename) == getExtension(filename)

\* const ext = getExtension(filename).toLowerCase()
AttachmentExt(filename) == toLowerCase(getExtension(filename))

\* one warning; the text is "Attachment skipped: <filename> (<reason>)", the
\* reason of an oversized file being "<size in MB>MB exceeds 20MB limit"
Warning(filename, reason) == [filename |-> filename, reason |-> reason]

\* the loop body of filterAttachments: what one attachment adds to acc
FilterOne(acc, att) ==
    IF att.ContentID # NULL /\ att.ContentID # <<>> THEN acc
    ELSE LET filename == IF Falsy(att.Name) THEN UNKNOWN ELSE att.Name
             ext      == AttachmentExt(filename)
             size     == att.ContentLength
         IN  IF ext \in BLOCKED_EXTENSIONS
             THEN [acc EXCEPT !.warnings =
                       Append(@, Warning(filename, "blocked file type"))]
             ELSE IF size > MAX_FILE_SIZE
             THEN [acc EXCEPT !.warnings =
                       Append(@, Warning(filename, "exceeds 20MB limit"))]
             ELSE [acc EXCEPT !.valid = Append(@, att)]

\* the loop of filterAttachments over atts[i..]
RECURSIVE FilterFrom(_, _, _)
FilterFrom(acc, atts, i) ==
    IF i > Len(atts) THEN acc
    ELSE FilterFrom(FilterOne(acc, atts[i]), atts, i + 1)

\* a payload without Attachments is the empty list here: line 22 answers both
\* in the same way
filterAttachments(atts) ==
    IF Len(atts) = 0 THEN [valid |-> <<>>, warnings |-> <<>>]
    ELSE FilterFrom([valid |-> <<>>, warnings |-> <<>>], atts, 1)

MaxAttachments == 2

\* file names of attachments; NULL is an attachment without a Name
AttachmentNames ==
    { NULL, <<"a",".","e","x","e">>, <<"a",".","E","X","E">>,
      <<"a",".","t","x","t">>, <<"e","x","e">>,
      <<"a",".","e","x","e",".","t","x","t">>,
      <<"a",".","t","x","t",".","J","s">> }

\* Content-IDs; NULL is an attachment without a ContentID
ContentIDs == { NULL, <<>>, <<"c","i","d","1">> }

\* sizes; 0 is also an attachment without a ContentLength, which
\* att.ContentLength || 0 takes for 0
ContentLengths == { 0, MAX_FILE_SIZE, MAX_FILE_SIZE + 1 }

Attachments ==
    [Name : AttachmentNames, ContentID : ContentIDs, ContentLength : ContentLengths]

\* the Attachments of a Postmark payload
AttachmentLists == SeqsUpTo(Attachments, MaxAttachments)

InitAttach ==
    /\ pc = "start"
    /\ IdleParse
    /\ IdleConvert
    /\ attachments \in AttachmentLists
    /\ filtered = [valid |-> <<>>, warnings |-> <<>>]
    /\ IdleHandler
    /\ IdleLater

\* filterAttachments(payload.Attachments)
FilterAttachments ==
    /\ pc = "start"
    /\ filtered' = filterAttachments(attachments)
    /\ pc' = "done"
    /\ UNCHANGED <<parseVars, convertVars, attachments, handlerVars, laterVars>>

NextAttach == FilterAttachments

SpecAttach == InitAttach /\ [][NextAttach]_vars

----------------------------------------------------------------------------
(* validate.js *)

\* an extractEmail that does not look for the angle-bracket form: a mutant
extractEmailBare(fromString) ==
    IF fromString = NULL \/ fromString = <<>> THEN NULL
    ELSE LET e == PlainEmailMatch(fromString, 1)
         IN  IF e # NULL THEN toLowerCase(e) ELSE NULL

\* extractEmail: the address inside the first <...>, else the first run of
\* non-space characters around an '@', in lower case; NULL without either
extractEmail(fromString) ==
    IF Falsy(fromString) THEN NULL
    ELSE LET b == BracketMatch(fromString, 1)
             e == PlainEmailMatch(fromString, 1)
         IN  IF b # NULL THEN toLowerCase(b)
             ELSE IF e # NULL THEN toLowerCase(e)
             ELSE NULL

NOTIONDASH == <<"n","o","t","i","o","n","-">>

\* email.split('@')[0]
LocalPart(email) ==
    LET ats == {i \in 1..Len(email) : email[i] = "@"}
    IN  IF ats = {} THEN email ELSE SubSeq(email, 1, MinOf(ats) - 1)

\* a validateRecipient that accepts every address: a mutant
validateRecipientOpen(toAddress, inboxSecret) == TRUE

validateRecipient(toAddress, inboxSecret) ==
    IF Falsy(toAddress) \/ Falsy(inboxSecret) THEN FALSE
    ELSE LET email == extractEmail(toAddress)
         IN  IF email = NULL THEN FALSE
             ELSE toLowerCase(LocalPart(email)) = NOTIONDASH \o toLowerCase(inboxSecret)

validateSender(fromAddress, allowed) ==
    IF Falsy(fromAddress) \/ Len(allowed) = 0 THEN FALSE
    ELSE LET email == extractEmail(fromAddress)
         IN  IF email = NULL THEN FALSE
             ELSE Includes(allowed, toLowerCase(email))

----------------------------------------------------------------------------
(* summarize.js: summarizeEmail *)

MinSummaryInput == 50

SUMMARY == <<"s","u","m","m","a","r","y">>

\* one way summarizeEmail can end: what the API did and what is returned
Outcome(api, summary) == [api |-> api, summary |-> summary]

\* what the API call of summarizeEmail can lead to: a text, a text that is
\* empty once trimmed, an answer without text, and a failure, which is
\* caught and logged
ApiOutcomes ==
    { Outcome("text", SUMMARY), Outcome("empty text", <<>>),
      Outcome("no text", NULL), Outcome("failed", NULL) }

\* a summarizeEmail that calls the API for a body of any length: a mutant
SummarizeAnyLength(emailBody, summaryPrompt, apiKey) ==
    IF Falsy(apiKey) \/ Falsy(summaryPrompt) THEN {Outcome("skipped", NULL)}
    ELSE ApiOutcomes

\* the ways summarizeEmail can end: null without calling the API when it is
\* not configured or when the body is shorter than 50 characters once
\* trimmed, else whatever becomes of the API call; it never throws
SummarizeOutcomes(emailBody, summaryPrompt, apiKey) ==
    IF Falsy(apiKey) \/ Falsy(summaryPrompt) THEN {Outcome("skipped", NULL)}
    ELSE IF Falsy(emailBody) \/ Len(Trim(emailBody)) < MinSummaryInput
    THEN {Outcome("skipped", NULL)}
    ELSE ApiOutcomes

----------------------------------------------------------------------------
(* The Lambda handlers: index.js (Postmark webhook) and the handler of SES
   events (attachments.js 312-575) *)

SECRET == <<"k">>
ME == <<"m","e","@","x">>

\* the configurations loadConfig can build from the parameter store: with
\* and without a Postmark token, with and without summarization
Configs ==
    [inboxSecret : {SECRET}, allowedSenders : {<<ME>>},
     postmarkServerToken : {NULL, <<"t">>},
     anthropicApiKey : {NULL, <<"k">>}, summaryPrompt : {NULL, <<"p">>}]

\* cachedConfig = null
NoConfig ==
    [inboxSecret |-> NULL, allowedSenders |-> <<>>, postmarkServerToken |-> NULL,
     anthropicApiKey |-> NULL, summaryPrompt |-> NULL]

\* To headers: none, the inbox address, the inbox address with a display
\* name and capitals, an address with another secret
Tos == { NULL, <<"n","o","t","i","o","n","-","k","@","i","n">>,
         <<"I","n"," ","<","N","o","t","i","o","n","-","K","@","i","n",">">>,
         <<"n","o","t","i","o","n","-","z","@","i","n">> }

\* From headers: none, an allowed sender, the same with a display name and
\* capitals, a stranger
Froms == { NULL, <<"m","e","@","x">>, <<"M","e"," ","<","M","E","@","x",">">>,
           <<"e","v","e","@","x">> }

LongText == Repeat("a", MinSummaryInput)

TextBodies == { <<>>, <<"h","i">>, LongText }

AttachmentFields ==
    { <<>>,
      <<[Name |-> <<"a",".","p","d","f">>, ContentID |-> NULL, ContentLength |-> 0]>>,
      <<[Name |-> <<"a",".","e","x","e">>, ContentID |-> NULL, ContentLength |-> 0]>> }

\* a subject with a client tag and one without
Subjects ==
    { <<"#","a","c","m","e",":"," ","h","i">>, <<"h","i">> }

\* the fields of a Postmark payload the handlers read; the payloads here
\* carry no HtmlBody
Payloads ==
    [To : Tos, From : Froms, Subject : Subjects, TextBody : TextBodies,
     Attachments : AttachmentFields]

NoPayload ==
    [To |-> NULL, From |-> NULL, Subject |-> NULL, TextBody |-> NULL,
     Attachments |-> <<>>]

\* the events of the Postmark handler: source is "postmark"; body says what
\* event.body is: "absent" (the event is the payload itself), "malformed" (a
\* string that is no JSON), "scalar" (a string that parses to a value that
\* is no object, or such a value), "json" (the payload as a string),
\* "object" (the payload as an object)
PostmarkEvents ==
    [source : {"postmark"}, body : {"malformed", "scalar"}, payload : {NoPayload}]
        \cup [source : {"postmark"}, body : {"absent", "json", "object"},
              payload : Payloads]

\* the events of the SES handler: Records[0].eventSource is "aws:ses" or
\* not; payload is what parseMimeEmail makes of the stored message
SesEvents ==
    [source : {"aws:ses"}, body : {"absent"}, payload : Payloads]
        \cup [source : {"other"}, body : {"absent"}, payload : {NoPayload}]

NoLocals ==
    [body |-> NoPayload, config |-> NoConfig, validated |-> "no",
     client |-> <<>>, cleanedTextBody |-> <<>>, blockCount |-> 0,
     validAttachments |-> 0, attachmentWarnings |-> 0, api |-> "not called",
     summary |-> NULL, summaryProperty |-> FALSE, summaryCallout |-> FALSE,
     page |-> FALSE]

NoResponse == [statusCode |-> 0, message |-> "", error |-> "none", pageUrl |-> FALSE]

\* { statusCode: 200, body: JSON.stringify({ message: 'OK', error, pageUrl }) }
Response200(err, withPageUrl) ==
    [statusCode |-> 200, message |-> "OK", error |-> err, pageUrl |-> withPageUrl]

InitHandler ==
    /\ pc = "start"
    /\ IdleParse
    /\ IdleConvert
    /\ IdleAttach
    /\ IdleLater
    /\ variant \in {"postmark", "ses"}
    /\ event \in (IF variant = "postmark" THEN PostmarkEvents ELSE SesEvents)
    /\ cachedConfig \in {NoConfig} \cup Configs
    /\ locals = NoLocals
    /\ trace = <<>>
    /\ response = NoResponse
    /\ error = "none"

idleVars == <<parseVars, convertVars, attachVars, laterVars>>

\* throw: the catch block runs next
Throw(msg) ==
    /\ error' = msg
    /\ pc' = "catch"

\* index.js 76-100: the request body is parsed and its structure checked;
\* SES handler 385-390: the event has to be an SES event
HandlerStart ==
    /\ pc = "start"
    /\ IF variant = "postmark"
       THEN IF event.body \in {"malformed", "scalar"}
            THEN /\ response' = Response200("Invalid request body", FALSE)
                 /\ pc' = "returned"
                 /\ UNCHANGED <<locals, error>>
            ELSE /\ locals' = [locals EXCEPT !.body = event.payload]
                 /\ pc' = "loadConfig"
                 /\ UNCHANGED <<response, error>>
       ELSE IF event.source # "aws:ses"
            THEN /\ Throw("Invalid event source - expected SES")
                 /\ UNCHANGED <<locals, response>>
            ELSE /\ pc' = "loadConfig"
                 /\ UNCHANGED <<locals, response, error>>
    /\ UNCHANGED <<idleVars, variant, event, cachedConfig, trace>>

\* const config = await loadConfig(): the cache when it is set and young
\* enough, else the parameter store, which may fail
LoadConfig ==
    /\ pc = "loadConfig"
    /\ trace' = Append(trace, "loadConfig")
    /\ \/ /\ cachedConfig # NoConfig
          /\ locals' = [locals EXCEPT !.config = cachedConfig]
          /\ pc' = IF variant = "postmark" THEN "validate" ELSE "fetch"
          /\ UNCHANGED <<cachedConfig, error>>
       \/ \E cfg \in Configs :
             /\ cachedConfig' = cfg
             /\ locals' = [locals EXCEPT !.config = cfg]
             /\ pc' = IF variant = "postmark" THEN "validate" ELSE "fetch"
             /\ UNCHANGED error
       \/ /\ Throw("SSM")
          /\ UNCHANGED <<cachedConfig, locals>>
    /\ UNCHANGED <<idleVars, variant, event, response>>

\* SES handler 396-400: the bucket has to be configured, then
\* processSesEvent fetches the message from S3 and parses its MIME parts
FetchEmail ==
    /\ pc = "fetch"
    /\ \/ /\ Throw("EMAIL_BUCKET environment variable not set")
          /\ UNCHANGED <<locals, trace>>
       \/ /\ trace' = Append(trace, "processSesEvent")
          /\ \/ /\ locals' = [locals EXCEPT !.body = event.payload]
                /\ pc' = "validate"
                /\ UNCHANGED error
             \/ /\ Throw("S3")
                /\ UNCHANGED locals
    /\ UNCHANGED <<idleVars, variant, event, cachedConfig, response>>

\* Stage 2: the recipient and the sender are validated; a failure returns
\* 200 at once
ValidateEmail ==
    /\ pc = "validate"
    /\ IF ~validateRecipient(locals.body.To, locals.config.inboxSecret)
       THEN /\ locals' = [locals EXCEPT !.validated = "recipient rejected"]
            /\ response' = Response200("none", FALSE)
            /\ pc' = "returned"
       ELSE IF ~validateSender(locals.body.From, locals.config.allowedSenders)
       THEN /\ locals' = [locals EXCEPT !.validated = "sender rejected"]
            /\ response' = Response200("none", FALSE)
            /\ pc' = "returned"
       ELSE /\ locals' = [locals EXCEPT !.validated = "passed"]
            /\ pc' = "process"
            /\ UNCHANGED response
    /\ UNCHANGED <<idleVars, variant, event, cachedConfig, trace, error>>

\* summarization is configured
SummaryConfigured(config) ==
    ~Falsy(config.anthropicApiKey) /\ ~Falsy(config.summaryPrompt)

\* Stages 3 and 4: the subject and the forwarded headers are parsed and
\* the forwarding headers stripped from the text body. What
\* parseForwardedHeaders returns only becomes properties of the page; the
\* handler keeps the call and not the value here
ParseEmail ==
    /\ pc = "process"
    /\ \E emailText \in {IF Falsy(locals.body.TextBody) THEN <<>>
                         ELSE locals.body.TextBody} :
          locals' = [locals EXCEPT
                        !.client = parseSubject(locals.body.Subject).client,
                        !.cleanedTextBody = stripForwardingHeaders(emailText)]
    /\ trace' = trace \o <<"parseSubject", "parseForwardedHeaders",
                           "stripForwardingHeaders">>
    /\ pc' = "convert"
    /\ UNCHANGED <<idleVars, variant, event, cachedConfig, response, error>>

\* Stages 5 and 7 up to the first await: the body becomes blocks and the
\* attachments are filtered. The SES handler takes contentBlocks and
\* cleanedContent out of what processEmailBody returns: with the
\* processEmailBody of convert.js, which returns an array,
\* contentBlocks.length throws a TypeError; with a processEmailBody that
\* returns both, the handler goes on
ConvertEmail ==
    /\ pc = "convert"
    /\ \/ /\ trace' = trace \o <<"processEmailBody", "filterAttachments">>
          /\ locals' =
                 [locals EXCEPT
                     !.blockCount = Len(processEmailBody(<<>>, locals.cleanedTextBody)),
                     !.validAttachments =
                         Len(filterAttachments(locals.body.Attachments).valid),
                     !.attachmentWarnings =
                         Len(filterAttachments(locals.body.Attachments).warnings)]
          /\ pc' = IF SummaryConfigured(locals.config)
                   THEN "summarize" ELSE "createEntry"
          /\ UNCHANGED error
       \/ /\ variant = "ses"
          /\ trace' = Append(trace, "processEmailBody")
          /\ Throw("TypeError")
          /\ UNCHANGED locals
    /\ UNCHANGED <<idleVars, variant, event, cachedConfig, response>>

\* Stage 8: summary = await summarizeEmail(...), which never throws
Summarize ==
    /\ pc = "summarize"
    /\ trace' = Append(trace, "summarizeEmail")
    /\ \E o \in SummarizeOutcomes(locals.cleanedTextBody,
                                  locals.config.summaryPrompt,
                                  locals.config.anthropicApiKey) :
           locals' = [locals EXCEPT !.api = o.api, !.summary = o.summary]
    /\ pc' = "createEntry"
    /\ UNCHANGED <<idleVars, variant, event, cachedConfig, response, error>>

\* where the handler goes on after the page exists and after the upload
AfterEntry(l, uploadDone) ==
    IF l.validAttachments > 0 /\ ~uploadDone THEN "upload"
    ELSE IF l.attachmentWarnings > 0 THEN "callout"
    ELSE "return"

\* Stage 6: a summary, when there is one, is put in front of the blocks as
\* a callout and becomes the Summary property of the page; then
\* page = await createEmailEntry(...), which may fail
CreateEntry ==
    /\ pc = "createEntry"
    /\ trace' = Append(trace, "createEmailEntry")
    /\ \/ /\ locals' = [locals EXCEPT !.summaryCallout = ~Falsy(locals.summary),
                                      !.summaryProperty = ~Falsy(locals.summary),
                                      !.page = TRUE]
          /\ pc' = AfterEntry(locals, FALSE)
          /\ UNCHANGED error
       \/ /\ locals' = [locals EXCEPT !.summaryCallout = ~Falsy(locals.summary),
                                      !.summaryProperty = ~Falsy(locals.summary)]
          /\ Throw("Notion")
    /\ UNCHANGED <<idleVars, variant, event, cachedConfig, response>>

\* Stage 7: await uploadAttachments(...), which appends blocks to the page
\* and returns no warnings, or fails
UploadAttachments ==
    /\ pc = "upload"
    /\ trace' = Append(trace, "uploadAttachments")
    /\ \/ /\ pc' = AfterEntry(locals, TRUE)
          /\ UNCHANGED error
       \/ Throw("Notion")
    /\ UNCHANGED <<idleVars, variant, event, cachedConfig, locals, response>>

\* await addWarningCallout(...), which may fail; the Postmark handler then
\* sends the warnings, the SES handler returns
AddWarningCallout ==
    /\ pc = "callout"
    /\ trace' = Append(trace, "addWarningCallout")
    /\ \/ /\ pc' = IF variant = "postmark" THEN "notifyWarning" ELSE "return"
          /\ UNCHANGED error
       \/ Throw("Notion")
    /\ UNCHANGED <<idleVars, variant, event, cachedConfig, locals, response>>

\* Stage 9: await notifyWarning(...), which catches the failure of its send
NotifyWarning ==
    /\ pc = "notifyWarning"
    /\ trace' = Append(trace, "notifyWarning")
    /\ pc' = "return"
    /\ UNCHANGED <<idleVars, variant, event, cachedConfig, locals, response, error>>

\* return { statusCode: 200, body: JSON.stringify({ message: 'OK', pageUrl }) }
ReturnOk ==
    /\ pc = "return"
    /\ response' = Response200("none", TRUE)
    /\ pc' = "returned"
    /\ UNCHANGED <<idleVars, variant, event, cachedConfig, locals, trace, error>>

\* a catch block that lets the failure of its own try block out: a mutant
CatchEndUnguarded(v, innerFailed) ==
    IF v = "ses" \/ innerFailed THEN "thrown" ELSE "returned"

\* a catch block of the SES handler that gives up the error when its own
\* try block failed: a mutant
CatchEndQuiet(v, innerFailed) ==
    IF v = "ses" /\ ~innerFailed THEN "thrown" ELSE "returned"

\* how the catch block ends: the Postmark handler returns, whatever became
\* of the notification, and the SES handler throws the error again
CatchEnd(v, innerFailed) == IF v = "ses" THEN "thrown" ELSE "returned"

\* the call of the inner try block once it has the configuration config:
\* notifyError when there is a Postmark token and an event.body,
\* createErrorEntry when the event has SES data (every configuration here has
\* the Notion key and database)
ErrorReport(v, config) ==
    IF v = "postmark"
    THEN IF ~Falsy(config.postmarkServerToken) /\ event.body \in {"json", "object"}
         THEN <<"notifyError">> ELSE <<>>
    ELSE IF event.source = "aws:ses" THEN <<"createErrorEntry">> ELSE <<>>

\* the catch block: const config = cachedConfig || await loadConfig(), where
\* NoConfig stands for a loadConfig that failed, then the error is reported.
\* A failed send is caught inside notifyError; a failed createErrorEntry and
\* a failed loadConfig leave the inner try block, whose catch only logs
Catch ==
    /\ pc = "catch"
    /\ \E loaded \in (IF cachedConfig # NoConfig THEN {cachedConfig}
                      ELSE Configs \cup {NoConfig}) :
       \E reportFailed \in BOOLEAN :
          LET report == IF loaded = NoConfig THEN <<>>
                        ELSE ErrorReport(variant, loaded)
              innerFailed == \/ loaded = NoConfig
                             \/ reportFailed /\ variant = "ses"
          IN  /\ reportFailed => report # <<>>
              /\ cachedConfig' = loaded
              /\ trace' = (IF cachedConfig = NoConfig
                           THEN Append(trace, "loadConfig") ELSE trace)
                             \o report
                             \o (IF reportFailed THEN <<"report failed">> ELSE <<>>)
              /\ response' = IF CatchEnd(variant, innerFailed) = "returned"
                             THEN Response200(error, FALSE) ELSE response
              /\ pc' = CatchEnd(variant, innerFailed)
    /\ UNCHANGED <<idleVars, variant, event, locals, error>>

NextHandler ==
    \/ HandlerStart
    \/ LoadConfig
    \/ FetchEmail
    \/ ValidateEmail
    \/ ParseEmail
    \/ ConvertEmail
    \/ Summarize
    \/ CreateEntry
    \/ UploadAttachments
    \/ AddWarningCallout
    \/ NotifyWarning
    \/ ReturnOk
    \/ Catch

SpecHandler == InitHandler /\ [][NextHandler]_vars

----------------------------------------------------------------------------
(* validateRecipient and validateSender called on their own *)

MaxAddressPieces == 3

\* pieces of To and From headers: a display name with the opening bracket,
\* brackets, addresses in both cases, a local part alone, an '@', a space
AddressPieces ==
    { <<"N"," ","<">>, <<"<">>, <<">">>,
      <<"n","o","t","i","o","n","-","k","@","i","n">>,
      <<"N","o","t","i","o","n","-","K","@","i","n">>,
      <<"n","o","t","i","o","n","-","k">>, <<"@">>, <<" ">>,
      <<"m","e","@","i","n">>, <<"M","E","@","i","n">> }

\* the headers; NULL is a missing header
AddressTexts ==
    {NULL} \cup { Flatten(ss) : ss \in SeqsUpTo(AddressPieces, MaxAddressPieces) }

\* inbox secrets; NULL is a missing secret
Secrets == { NULL, <<>>, <<"k">>, <<"K">>, <<"z">> }

\* lists of allowed senders
AllowedLists ==
    { <<>>, <<<<"m","e","@","i","n">>>>, <<<<"M","e","@","i","n">>>>,
      <<<<"e","v","e","@","i","n">>, <<"m","e","@","i","n">>>> }

InitValidate ==
    /\ pc \in {"recipient", "sender"}
    /\ subject = <<>>
    /\ parsed = NoParse
    /\ text = <<>>
    /\ allowedSenders \in (IF pc = "sender" THEN AllowedLists ELSE {<<>>})
    /\ fwd = NoFwd
    /\ stripped = <<>>
    /\ restripped = <<>>
    /\ IdleConvert
    /\ IdleAttach
    /\ IdleHandler
    /\ address \in AddressTexts
    /\ secret \in (IF pc = "recipient" THEN Secrets ELSE {<<>>})
    /\ valid = FALSE
    /\ IdleScan
    /\ IdleNotion

\* validateRecipient(body.To, config.inboxSecret)
ValidateRecipient ==
    /\ pc = "recipient"
    /\ valid' = validateRecipient(address, secret)
    /\ pc' = "recipient done"
    /\ UNCHANGED <<parseVars, convertVars, attachVars, handlerVars, address,
                   secret, scanVars, notionVars>>

\* validateSender(body.From, config.allowedSenders)
ValidateSender ==
    /\ pc = "sender"
    /\ valid' = validateSender(address, allowedSenders)
    /\ pc' = "sender done"
    /\ UNCHANGED <<parseVars, convertVars, attachVars, handlerVars, address,
                   secret, scanVars, notionVars>>

NextValidate == ValidateRecipient \/ ValidateSender

SpecValidate == InitValidate /\ [][NextValidate]_vars

----------------------------------------------------------------------------
(* The while loop of markdownToBlocks, one step at a time *)

\* line.startsWith of the fence; a line that starts with the fence matches
\* none of the rules the loop tries before
StartsFence(line) == MatchLit(line, 1, FENCE)

\* the line the loop is at
CurrentLine == scanLines[lineIndex + 1]

\* visits with one more visit of the line at index i
Visited(i) == [visits EXCEPT ![i + 1] = @ + 1]

\* a loop that goes on with the line of the closing fence: a mutant
AfterFenceStay(i) == i

\* i++ behind the inner loop: the closing fence is skipped
AfterFence(i) == i + 1

InitScan ==
    /\ pc = "start"
    /\ IdleParse
    /\ markdown \in MarkdownTexts
    /\ maxLength = ChunkLimit
    /\ chunks = <<>>
    /\ contentBlocks = <<>>
    /\ linked = <<>>
    /\ relinked = <<>>
    /\ richText = <<>>
    /\ IdleAttach
    /\ IdleHandler
    /\ IdleValidate
    /\ IdleScan
    /\ IdleNotion

\* convert.js 221-227: no text, no blocks; else the text is split into
\* lines and the loop starts at the first
StartScan ==
    /\ pc = "start"
    /\ IF markdown = NULL \/ markdown = <<>>
       THEN /\ pc' = "done"
            /\ UNCHANGED <<scanLines, visits>>
       ELSE /\ pc' = "loop"
            /\ scanLines' = SplitLines(markdown, 1)
            /\ visits' = [k \in 1..Len(SplitLines(markdown, 1)) |-> 0]
    /\ UNCHANGED <<parseVars, convertVars, attachVars, handlerVars,
                   validateVars, notionVars, lineIndex, scanBlocks, codeLines>>

\* an iteration of the loop at a line that does not open a fence: the line
\* is skipped or becomes its blocks (convert.js 230-306 and 333-344), i++
ScanLine ==
    /\ pc = "loop"
    /\ lineIndex < Len(scanLines)
    /\ ~StartsFence(CurrentLine)
    /\ scanBlocks' = scanBlocks \o BlocksOfLines(<<CurrentLine>>, 1)
    /\ visits' = Visited(lineIndex)
    /\ lineIndex' = lineIndex + 1
    /\ UNCHANGED <<pc, parseVars, convertVars, attachVars, handlerVars,
                   validateVars, notionVars, scanLines, codeLines>>

\* convert.js 309-311: the line opens a fence; i++ skips it
OpenFence ==
    /\ pc = "loop"
    /\ lineIndex < Len(scanLines)
    /\ StartsFence(CurrentLine)
    /\ codeLines' = <<>>
    /\ visits' = Visited(lineIndex)
    /\ lineIndex' = lineIndex + 1
    /\ pc' = "fence"
    /\ UNCHANGED <<parseVars, convertVars, attachVars, handlerVars,
                   validateVars, notionVars, scanLines, scanBlocks>>

\* convert.js 312-315: an iteration of the inner loop
FenceLine ==
    /\ pc = "fence"
    /\ lineIndex < Len(scanLines)
    /\ ~StartsFence(CurrentLine)
    /\ codeLines' = Append(codeLines, CurrentLine)
    /\ visits' = Visited(lineIndex)
    /\ lineIndex' = lineIndex + 1
    /\ UNCHANGED <<pc, parseVars, convertVars, attachVars, handlerVars,
                   validateVars, notionVars, scanLines, scanBlocks>>

\* convert.js 316-331: the inner loop has ended at the closing fence or at
\* the end of the lines; i++, and the joined lines become code blocks
CloseFence ==
    /\ pc = "fence"
    /\ ~(lineIndex < Len(scanLines) /\ ~StartsFence(CurrentLine))
    /\ visits' = IF lineIndex < Len(scanLines) THEN Visited(lineIndex) ELSE visits
    /\ lineIndex' = AfterFence(lineIndex)
    /\ scanBlocks' = scanBlocks \o CodeBlocks(chunkText(JoinLines(codeLines), ChunkLimit))
    /\ codeLines' = <<>>
    /\ pc' = "loop"
    /\ UNCHANGED <<parseVars, convertVars, attachVars, handlerVars,
                   validateVars, notionVars, scanLines>>

\* convert.js 229 and 347: i < lines.length is false, return blocks
ScanEnd ==
    /\ pc = "loop"
    /\ ~(lineIndex < Len(scanLines))
    /\ pc' = "done"
    /\ UNCHANGED <<parseVars, convertVars, attachVars, handlerVars, laterVars>>

NextScan ==
    \/ StartScan
    \/ ScanLine
    \/ OpenFence
    \/ FenceLine
    \/ CloseFence
    \/ ScanEnd

SpecScan == InitScan /\ [][NextScan]_vars

----------------------------------------------------------------------------
(* createEmailEntry and appendBlocksToPage, one request at a time *)

\* BATCH_SIZE of appendBlocksToPage (100 in notion.js), scaled down
BATCH_SIZE == 2

MaxBlocks == 5

ContentTypes == {"paragraph", "code"}

\* the content blocks handed to createEmailEntry: each has its place in the
\* sequence as id
BlockLists ==
    UNION { { [k \in 1..n |-> [id |-> k, type |-> ts[k]]] : ts \in [1..n -> ContentTypes] } :
            n \in 0..MaxBlocks }

\* blocks.slice(0, BATCH_SIZE) and blocks.slice(BATCH_SIZE)
FirstBatch(blocks) ==
    SubSeq(blocks, 1, IF Len(blocks) < BATCH_SIZE THEN Len(blocks) ELSE BATCH_SIZE)
AfterBatch(blocks) == SubSeq(blocks, Len(FirstBatch(blocks)) + 1, Len(blocks))

\* the sequence s without its element at index k
Without(s, k) == SubSeq(s, 1, k - 1) \o SubSeq(s, k + 1, Len(s))

\* a loop that issues its next request without awaiting the one before: a
\* mutant
MaySendUnawaited(requests, rest) == rest # <<>>

\* the loop of appendBlocksToPage issues a request when blocks are left and
\* the request before, which it awaits, has answered
MaySend(requests, rest) == rest # <<>> /\ requests = <<>>

InitNotion ==
    /\ pc = "start"
    /\ IdleParse
    /\ markdown = <<>>
    /\ maxLength = 0
    /\ chunks = <<>>
    /\ contentBlocks \in BlockLists
    /\ linked = <<>>
    /\ relinked = <<>>
    /\ richText = <<>>
    /\ IdleAttach
    /\ IdleHandler
    /\ IdleValidate
    /\ IdleScan
    /\ IdleNotion

\* createEmailEntry up to its first await: client.pages.create is called
CreatePage ==
    /\ pc = "start"
    /\ pc' = "creating"
    /\ UNCHANGED <<parseVars, convertVars, attachVars, handlerVars, laterVars>>

\* client.pages.create has answered: without content blocks the page is
\* returned, with content blocks appendBlocksToPage starts at i = 0
PageCreated ==
    /\ pc = "creating"
    /\ pageCreated' = TRUE
    /\ pending' = contentBlocks
    /\ pc' = IF Len(contentBlocks) > 0 THEN "append" ELSE "done"
    /\ UNCHANGED <<parseVars, convertVars, attachVars, handlerVars,
                   validateVars, scanVars, inFlight, sent>>

\* an iteration of the loop of appendBlocksToPage up to its await: the next
\* batch goes into a request
SendBatch ==
    /\ pc = "append"
    /\ MaySend(inFlight, pending)
    /\ inFlight' = Append(inFlight, FirstBatch(pending))
    /\ pending' = AfterBatch(pending)
    /\ UNCHANGED <<pc, parseVars, convertVars, attachVars, handlerVars,
                   validateVars, scanVars, pageCreated, sent>>

\* a request of client.blocks.children.append has answered; after the last
\* one createEmailEntry returns the page
BatchAppended ==
    /\ pc = "append"
    /\ \E k \in 1..Len(inFlight) :
          /\ sent' = Append(sent, inFlight[k])
          /\ inFlight' = Without(inFlight, k)
          /\ pc' = IF pending = <<>> /\ Len(inFlight) = 1 THEN "done" ELSE "append"
    /\ UNCHANGED <<parseVars, convertVars, attachVars, handlerVars,
                   validateVars, scanVars, pageCreated, pending>>

\* a request to Notion has failed: the error leaves createEmailEntry
RequestFails ==
    /\ \/ pc = "creating"
       \/ pc = "append" /\ inFlight # <<>>
    /\ pc' = "failed"
    /\ UNCHANGED <<parseVars, convertVars, attachVars, handlerVars, laterVars>>

NextNotion ==
    \/ CreatePage
    \/ PageCreated
    \/ SendBatch
    \/ BatchAppended
    \/ RequestFails

SpecNotion == InitNotion /\ [][NextNotion]_vars

----------------------------------------------------------------------------
(* Claims about parseSubject, under SpecSubject *)

\* the argument as the string parseSubject works on (null becomes '')
SubjectString == IF subject = NULL THEN <<>> ELSE subject

\* the subject starts with '#' directly followed by a word character
HasLeadingToken == ClientTokenEnd(SubjectString) > 0

\* the characters of the leading #token
LeadingToken == SubSeq(SubjectString, 2, ClientTokenEnd(SubjectString) - 1)

\* C1: for every subject (null, empty and subjects without '#' included) the
\* tag parseSubject returns is non-empty, at most 50 characters long and
\* made of the characters a-z and 0-9 only.
C1_TagShape ==
    pc = "done" =>
        /\ parsed.client # <<>>
        /\ Len(parsed.client) <= MaxClientLen
        /\ \A i \in 1..Len(parsed.client) : IsLowerAlnum(parsed.client[i])

\* a token longer than 50 characters, holding a character that is removed,
\* was cut down to 50
C1_Witness ==
    /\ pc = "done"
    /\ HasLeadingToken
    /\ Len(LeadingToken) > MaxClientLen
    /\ \E i \in 1..Len(LeadingToken) : LeadingToken[i] = "_"
    /\ Len(parsed.client) = MaxClientLen

C3_NoPrefixLeft == pc = "done" => ~PrefixTest(parsed.subject)

----------------------------------------------------------------------------
(* Claims about parseForwardedHeaders, under SpecForward *)

\* the body as a string (null becomes '')
BodyString == IF text = NULL THEN <<>> ELSE text

\* v holds an address (angle-bracket or bare form) equal, case-insensitively,
\* to one of the allowed senders
IsSelfAddress(v) ==
    LET e == extractEmailFromHeader(v)
    IN  /\ e # NULL
        /\ \E i \in 1..Len(allowedSenders) :
              toLowerCase(allowedSenders[i]) = toLowerCase(e)

\* the value of the From: header that starts at index j of s
FromValueAt(s, j) == Trim(ValueMatch(s, j, j + Len(FROMKEY)).value)

\* the indices of the body where a From: header with a value starts
FromStarts ==
    {j \in 1..Len(BodyString) :
        /\ MatchLitCI(BodyString, j, FROMKEY)
        /\ ValueMatch(BodyString, j, j + Len(FROMKEY)).found}

\* those at the start of a line
FromLineStarts == {j \in FromStarts : j = 1 \/ BodyString[j - 1] = "\n"}

\* the recognized header blocks of the body, and those that hold a From:
HeaderBlocks ==
    LET bs == BlocksFrom(BodyString, 1) IN {bs[i] : i \in 1..Len(bs)}
FromBlocks == {b \in HeaderBlocks : HeaderExec(b.str, FromKeys, 1).found}
BlockFromValue(b) == Trim(HeaderExec(b.str, FromKeys, 1).value)
ExternalBlocks == {b \in FromBlocks : ~IsSelfAddress(BlockFromValue(b))}

\* the date of the first Date:/Sent: header of block b, NULL without one
BlockOwnDate(b) ==
    LET j == {k \in 1..Len(b.str) :
                 MatchLitCI(b.str, k, DATEKEY) \/ MatchLitCI(b.str, k, SENTKEY)}
    IN  IF j = {} THEN NULL
        ELSE parseDateString(Trim(SubSeq(b.str, SkipSpace(b.str, MinOf(j) + 5),
                                         LineEnd(b.str, SkipSpace(b.str, MinOf(j) + 5)) - 1)))

\* C4: parseForwardedHeaders never returns as originalFrom a From: value
\* whose address equals, case-insensitively, a self/allowed-sender address;
\* such headers are skipped and the search goes on: a From: line with
\* another address further down is found.
C4_NeverSelf ==
    pc = "done" =>
        /\ fwd.originalFrom # NULL => ~IsSelfAddress(fwd.originalFrom)
        /\ (\E j \in FromLineStarts : ~IsSelfAddress(FromValueAt(BodyString, j)))
           => fwd.originalFrom # NULL

\* a self From: came first in the text and the sender of a later one was
\* returned
C4_Witness ==
    /\ pc = "done"
    /\ fwd.originalFrom # NULL
    /\ extractEmailFromHeader(fwd.originalFrom) # NULL
    /\ \E j \in FromLineStarts :
          /\ IsSelfAddress(FromValueAt(BodyString, j))
          /\ \A k \in FromLineStarts : k >= j
          /\ \E k \in FromLineStarts :
                k > j /\ FromValueAt(BodyString, k) = fwd.originalFrom

\* the first block of the text that holds a From: is a self block and a
\* later block has an external From:
C5_Thread ==
    /\ text # NULL
    /\ \E b \in FromBlocks :
          /\ \A c \in FromBlocks : b.start <= c.start
          /\ IsSelfAddress(BlockFromValue(b))
          /\ \E c \in ExternalBlocks : c.start > b.start

C6_DocumentOrder ==
    (pc = "done" /\ text # NULL /\ ExternalBlocks # {}) =>
        \E c \in ExternalBlocks :
            /\ \A d \in ExternalBlocks : c.start <= d.start
            /\ fwd.originalFrom = BlockFromValue(c)

\* the text between 'On ' and 'wrote:' of an inline reply marker that
\* starts a line at index j
WroteParty(s, j) ==
    SubSeq(s, j + Len(ONSPACE), OnWroteHead(s, j) - Len(WROTE) - 1)

\* the indices where an 'On ... wrote:' marker line starts
WroteStarts ==
    {j \in 1..Len(BodyString) :
        /\ j = 1 \/ BodyString[j - 1] = "\n"
        /\ OnWroteHead(BodyString, j) # 0}

\* "last reply was me": there is a From: header, every From: header is a
\* self address, and one inline reply marker names an external party
C7_Scenario ==
    /\ FromStarts # {}
    /\ \A j \in FromStarts : IsSelfAddress(FromValueAt(BodyString, j))
    /\ Cardinality(WroteStarts) = 1
    /\ \A j \in WroteStarts :
          /\ extractEmailFromHeader(WroteParty(BodyString, j)) # NULL
          /\ ~IsSelfAddress(WroteParty(BodyString, j))

\* C7: in the "last reply was me" scenario parseForwardedHeaders returns
\* the external party of the 'On <date> <Name> <address> wrote:' marker as
\* originalFrom.
C7_LastReplyWasMe ==
    (pc = "done" /\ C7_Scenario) =>
        /\ fwd.originalFrom # NULL
        /\ \A j \in WroteStarts :
              extractEmailFromHeader(fwd.originalFrom)
                 = extractEmailFromHeader(WroteParty(BodyString, j))

\* the values of all Date:/Sent: headers of the body
DateValues ==
    {Trim(ValueMatch(BodyString, j, j + 5).value) :
        j \in {k \in 1..Len(BodyString) :
                 /\ MatchLitCI(BodyString, k, DATEKEY) \/ MatchLitCI(BodyString, k, SENTKEY)
                 /\ ValueMatch(BodyString, k, k + 5).found}}

\* an ISO timestamp as toISOString writes it
IsISOString(d) ==
    /\ Len(d) = 24 /\ IsIsoDay(d) /\ d[11] = "T" /\ d[24] = "Z"

\* C8: parseForwardedHeaders is total and degrades to none: no text gives
\* originalFrom = null and originalDate = null; a text in which every From:
\* address is a self address, or without From:, gives originalFrom = null;
\* an unparseable Date:/Sent: value gives originalDate = null, not an error.
C8_DegradesToNone ==
    pc = "done" =>
        /\ (text = NULL \/ text = <<>>) => fwd = NoFwd
        /\ (\A j \in FromStarts : IsSelfAddress(FromValueAt(BodyString, j)))
           => fwd.originalFrom = NULL
        /\ fwd.originalDate = NULL \/ IsISOString(fwd.originalDate)
        /\ (\A v \in DateValues : ~IsIsoDay(WithoutDay(v)))
           => fwd.originalDate = NULL

\* a text whose From: headers are all self addresses and whose only date
\* cannot be parsed went through and gave nothing
C8_Witness ==
    /\ pc = "done"
    /\ FromStarts # {}
    /\ \A j \in FromStarts : IsSelfAddress(FromValueAt(BodyString, j))
    /\ DateValues # {}
    /\ \A v \in DateValues : ~IsIsoDay(WithoutDay(v))
    /\ fwd = NoFwd

----------------------------------------------------------------------------
(* Claims about stripForwardingHeaders, under SpecStrip *)

\* the literal lit occurs somewhere in s, compared without case
Occurs(s, lit) == \E j \in 1..Len(s) : MatchLitCI(s, j, lit)

\* the text holds nothing a marker is made of: no divider of dashes or
\* underscores, no 'Begin forwarded message:', no 'Original Message' and no
\* 'wrote:'
MarkerFree(s) ==
    /\ ~Occurs(s, <<"-","-","-">>)
    /\ ~Occurs(s, <<"_","_","_","_","_">>)
    /\ ~Occurs(s, BEGINFWD)
    /\ ~Occurs(s, ORIGINALMSG)
    /\ ~Occurs(s, WROTE)

\* C9: stripForwardingHeaders is idempotent: applying it to its own result
\* changes nothing.
C9_Idempotent == pc = "done" => restripped = stripped

\* C10 as stated: a body without a recognized forwarding marker comes back
\* unchanged.
C10_Unchanged ==
    (pc # "start" /\ text # NULL /\ MarkerFree(text)) => stripped = text

\* C10, amended: a body without a recognized forwarding marker comes back
\* with its leading and trailing whitespace removed and otherwise unchanged;
\* an absent body comes back as the empty string.
C10_TrimmedOnly ==
    /\ (pc # "start" /\ text # NULL /\ MarkerFree(text)) => stripped = Trim(text)
    /\ (pc # "start" /\ text = NULL) => stripped = <<>>

\* a marker-free text with header-like lines and a line that starts with
\* 'On ' kept all of them and lost only its surrounding whitespace
C10_Witness ==
    /\ pc = "stripped"
    /\ text # NULL
    /\ MarkerFree(text)
    /\ Occurs(text, FROMKEY)
    /\ \E j \in 1..Len(text) : AtLineStart(text, j) /\ MatchLitCI(text, j, ONSPACE)
    /\ stripped # text
    /\ stripped = Trim(text)

----------------------------------------------------------------------------
(* Claims about markdownToBlocks and processEmailBody, under SpecBlocks *)

\* the Markdown text as a string (null becomes '') and its lines
MarkdownString == IF markdown = NULL THEN <<>> ELSE markdown
MarkdownLinesOf == SplitLines(MarkdownString, 1)

\* the types of the blocks returned, in their order
BlockTypes == [k \in 1..Len(contentBlocks) |-> contentBlocks[k].type]

\* C11: every rich-text element of every block markdownToBlocks returns has
\* a content of at most the limit (2000 characters, here ChunkLimit), for
\* heading, list item, quote, paragraph and code blocks alike.
C11_SpanLimit ==
    pc = "blocks" =>
        \A k \in 1..Len(contentBlocks) :
            \A j \in 1..Len(contentBlocks[k].rich_text) :
                Len(contentBlocks[k].rich_text[j].content) <= ChunkLimit

\* the characters of inline markup
IsMarkupChar(c) == c \in {"[", "]", "*", "_", "~", BT}

\* the body is a single line, longer than the limit, free of inline markup,
\* that none of the rules before the paragraph rule takes
IsLongPlainParagraph ==
    /\ markdown # NULL
    /\ Len(markdown) > ChunkLimit
    /\ \A i \in 1..Len(markdown) : markdown[i] # "\n" /\ ~IsMarkupChar(markdown[i])
    /\ markdown[1] \notin {"#", "-", "+", ">"} \cup Digits
    /\ \E i \in 1..Len(markdown) : ~IsSpace(markdown[i])

\* every block is a paragraph of one span without link and annotation
AllPlainParagraphs ==
    \A k \in 1..Len(contentBlocks) :
        /\ contentBlocks[k].type = "paragraph"
        /\ Len(contentBlocks[k].rich_text) = 1
        /\ contentBlocks[k].rich_text[1].link = NULL
        /\ contentBlocks[k].rich_text[1].annotations = {}

ParagraphText(k) == contentBlocks[k].rich_text[1].content

\* the contents of the paragraphs stand in the line in their order, the
\* first at its start, with nothing but whitespace between one and the
\* next and after the last
ReconstructsLine ==
    \E p \in [1..Len(contentBlocks) -> 1..Len(markdown)] :
        /\ p[1] = 1
        /\ \A k \in 1..Len(contentBlocks) :
              LET last == p[k] + Len(ParagraphText(k)) - 1
                  next == IF k < Len(contentBlocks) THEN p[k + 1]
                          ELSE Len(markdown) + 1
              IN  /\ Len(ParagraphText(k)) >= 1
                  /\ last <= Len(markdown)
                  /\ SubSeq(markdown, p[k], last) = ParagraphText(k)
                  /\ next > last
                  /\ \A i \in (last + 1)..(next - 1) : IsSpace(markdown[i])

\* C12 as stated: a single paragraph line longer than the limit and free of
\* inline markup gives two or more consecutive paragraph blocks whose
\* contents, in order, are the line minus whitespace at the chunk borders.
C12_TwoOrMore ==
    (pc = "blocks" /\ IsLongPlainParagraph) =>
        /\ Len(contentBlocks) >= 2
        /\ AllPlainParagraphs
        /\ ReconstructsLine

\* C12, amended: such a line gives one or more consecutive paragraph
\* blocks, each within the limit, whose contents in order are the line
\* minus whitespace at the chunk borders and at its end; there are two or
\* more of them when a character that is not whitespace stands after the
\* first ChunkLimit + 1 characters.
C12_Reconstructs ==
    (pc = "blocks" /\ IsLongPlainParagraph) =>
        /\ Len(contentBlocks) >= 1
        /\ AllPlainParagraphs
        /\ ReconstructsLine
        /\ \A k \in 1..Len(contentBlocks) : Len(ParagraphText(k)) <= ChunkLimit
        /\ (\E i \in (ChunkLimit + 2)..Len(markdown) : ~IsSpace(markdown[i]))
           => Len(contentBlocks) >= 2

\* a long line came back as several paragraphs and lost a space at a border
C12_Witness ==
    /\ pc = "blocks"
    /\ IsLongPlainParagraph
    /\ Len(contentBlocks) >= 2
    /\ AllPlainParagraphs
    /\ Len(ParagraphText(1)) + Len(ParagraphText(2)) < Len(markdown)
    /\ ~IsSpace(markdown[Len(markdown)])

----------------------------------------------------------------------------
(* Claims about chunkText, under SpecChunk *)

\* the indices (from 0) up to maxLength where the text holds character c
IndicesOf(c) ==
    {k \in 0..(Len(markdown) - 1) : k <= maxLength /\ markdown[k + 1] = c}

MaxOf(S) == CHOOSE x \in S : \A y \in S : y <= x

\* the first chunk is the first n characters of the text
FirstChunkIs(n) == chunks # <<>> /\ chunks[1] = SubSeq(markdown, 1, n)

\* C13 as stated: a text longer than maxLength is broken at the last
\* newline within the limit whenever there is one; only without one at the
\* last space within the limit; only without either at exactly maxLength.
C13_Preference ==
    (pc = "done" /\ Len(markdown) > maxLength) =>
        IF IndicesOf("\n") # {} THEN FirstChunkIs(MaxOf(IndicesOf("\n")))
        ELSE IF IndicesOf(" ") # {} THEN FirstChunkIs(MaxOf(IndicesOf(" ")))
        ELSE FirstChunkIs(maxLength)

\* a break at index k is taken only in the second half of the limit
InSecondHalf(k) == 2 * k >= maxLength

\* C13, amended: a text longer than maxLength is broken at the last newline
\* at an index (from 0) of at most maxLength if that index is at least
\* maxLength / 2; otherwise at the last space at an index of at most
\* maxLength if that index is at least maxLength / 2; otherwise it is cut at
\* exactly maxLength.
C13_PreferenceInSecondHalf ==
    (pc = "done" /\ Len(markdown) > maxLength) =>
        IF IndicesOf("\n") # {} /\ InSecondHalf(MaxOf(IndicesOf("\n")))
        THEN FirstChunkIs(MaxOf(IndicesOf("\n")))
        ELSE IF IndicesOf(" ") # {} /\ InSecondHalf(MaxOf(IndicesOf(" ")))
        THEN FirstChunkIs(MaxOf(IndicesOf(" ")))
        ELSE FirstChunkIs(maxLength)

\* a text with a newline in the first half of the limit and a space in the
\* second half was broken at the space
C13_Witness ==
    /\ pc = "done"
    /\ Len(markdown) > maxLength
    /\ IndicesOf("\n") # {}
    /\ ~InSecondHalf(MaxOf(IndicesOf("\n")))
    /\ IndicesOf(" ") # {}
    /\ InSecondHalf(MaxOf(IndicesOf(" ")))
    /\ FirstChunkIs(MaxOf(IndicesOf(" ")))
    /\ Len(chunks) >= 2

----------------------------------------------------------------------------
(* Claims about the line dispatch of markdownToBlocks, under SpecBlocks *)

\* the rules of the dispatch as the claim lists them
RuleHeading(line) ==
    \E n \in 1..3 :
        /\ Len(line) >= n + 2
        /\ \A i \in 1..n : line[i] = "#"
        /\ IsSpace(line[n + 1])
RuleHeadingLevel(line) == CHOOSE n \in 1..3 : line[n] = "#" /\ line[n + 1] # "#"
RuleEmptyQuote(line) == \A i \in 1..Len(line) : IsSpace(line[i]) \/ line[i] = ">"
RuleDivider(line) ==
    \E c \in {"-", "_", "*"} :
        /\ Len(Trim(line)) >= 3
        /\ \A i \in 1..Len(Trim(line)) : Trim(line)[i] = c
RuleBullet(line) == Len(line) >= 2 /\ line[1] \in {"-", "*", "+"} /\ IsSpace(line[2])
RuleNumbered(line) ==
    \E d \in 1..Len(line) :
        /\ \A i \in 1..d : line[i] \in Digits
        /\ d + 2 <= Len(line)
        /\ line[d + 1] = "."
        /\ IsSpace(line[d + 2])
RuleQuote(line) == line[1] = ">"
RuleFence(line) == Len(line) >= 3 /\ \A i \in 1..3 : line[i] = BT

\* the type the first matching rule gives a non-blank line outside a fence:
\* "skip" for an empty quote, "fence" for an opening fence
LineKind(line) ==
    IF RuleHeading(line) THEN HeadingType(RuleHeadingLevel(line))
    ELSE IF RuleEmptyQuote(line) THEN "skip"
    ELSE IF RuleDivider(line) THEN "divider"
    ELSE IF RuleBullet(line) THEN "bulleted_list_item"
    ELSE IF RuleNumbered(line) THEN "numbered_list_item"
    ELSE IF RuleQuote(line) THEN "quote"
    ELSE IF RuleFence(line) THEN "fence"
    ELSE "paragraph"

\* n times the type t
TypeRun(t, n) == [k \in 1..n |-> t]

\* the index of the first line after i that starts with a fence, the number
\* of lines plus one when there is none
ClosingFence(lines, i) ==
    LET c == {j \in (i + 1)..Len(lines) : RuleFence(lines[j])}
    IN  IF c = {} THEN Len(lines) + 1 ELSE MinOf(c)

\* the block types the lines from line i on give, in the order of the
\* lines; a paragraph line and the content of a fence give one block for
\* each of their chunks
RECURSIVE ExpectedTypes(_, _)
ExpectedTypes(lines, i) ==
    IF i > Len(lines) THEN <<>>
    ELSE LET kind == IF Trim(lines[i]) = <<>> THEN "skip" ELSE LineKind(lines[i])
             close == ClosingFence(lines, i)
         IN  CASE kind = "skip" -> ExpectedTypes(lines, i + 1)
               [] kind = "fence" ->
                    TypeRun("code",
                            Len(chunkText(JoinLines(SubSeq(lines, i + 1, close - 1)),
                                          ChunkLimit)))
                       \o ExpectedTypes(lines, close + 1)
               [] kind = "paragraph" ->
                    TypeRun("paragraph", Len(chunkText(lines[i], ChunkLimit)))
                       \o ExpectedTypes(lines, i + 1)
               [] OTHER -> <<kind>> \o ExpectedTypes(lines, i + 1)

\* C14: markdownToBlocks gives the blocks in the order of their source
\* lines, each non-blank line outside a fence classified by the first rule
\* that matches (heading, empty-quote skip, divider, bullet, numbered item,
\* quote, fence, otherwise paragraph); blank lines give no block; the
\* example text gives exactly heading_1, two bulleted items and a quote.
C14_DispatchInOrder ==
    pc = "blocks" =>
        /\ BlockTypes = ExpectedTypes(MarkdownLinesOf, 1)
        /\ markdown = ExampleMarkdown
           => BlockTypes = <<"heading_1", "bulleted_list_item",
                             "bulleted_list_item", "quote">>

\* the example text went through and gave its four blocks
C14_Witness ==
    /\ pc = "blocks"
    /\ markdown = ExampleMarkdown
    /\ Len(contentBlocks) = 4
    /\ contentBlocks[1].rich_text[1].content = <<"H">>
    /\ contentBlocks[4].type = "quote"

\* the body opens with a fence that a later line closes
OpensWithClosedFence ==
    /\ markdown # NULL
    /\ RuleFence(MarkdownLinesOf[1])
    /\ ClosingFence(MarkdownLinesOf, 1) <= Len(MarkdownLinesOf)

\* the raw lines between the opening fence and the line that closes it
FenceContent ==
    JoinLines(SubSeq(MarkdownLinesOf, 2, ClosingFence(MarkdownLinesOf, 1) - 1))

\* C15: the lines between an opening fence and the closing one are never
\* dispatched and never parsed for inline markup: they come back only as
\* code blocks of language 'plain text' that hold the raw lines joined by
\* newlines, cut by length alone; through processEmailBody as well, for
\* content with URLs or emphasis markers.
C15_FenceVerbatim ==
    (pc \in {"blocks", "processed"} /\ OpensWithClosedFence) =>
        LET raw == CodeBlocks(chunkText(FenceContent, ChunkLimit))
        IN  /\ Len(contentBlocks) >= Len(raw)
            /\ SubSeq(contentBlocks, 1, Len(raw)) = raw
            /\ Len(contentBlocks) > Len(raw)
               => contentBlocks[Len(raw) + 1].type # "code"

----------------------------------------------------------------------------
(* Claims about linkifyUrls, under SpecLinkify *)

\* the text is one Markdown link, [text](target), whose target is a URL and
\* whose text holds a URL
IsLinkWithUrlInText ==
    /\ markdown # NULL
    /\ LinkMatch(markdown, 1).found
    /\ LinkMatch(markdown, 1).last = Len(markdown)
    /\ MatchLit(markdown, LinkMatch(markdown, 1).close + 2, HTTP)
    /\ \E i \in 2..(LinkMatch(markdown, 1).close - 1) : MatchLit(markdown, i, HTTP)
    /\ \A i \in 2..(LinkMatch(markdown, 1).close - 1) : markdown[i] # "["

\* C16: linkifyUrls turns every bare URL into [url](url) and leaves a URL
\* that is part of a Markdown link alone, as the target or anywhere in the
\* link text; so linkifyUrls(linkifyUrls(t)) equals linkifyUrls(t).
C16_LinkifyOnce ==
    /\ pc = "done" => relinked = linked
    /\ (pc # "start" /\ IsLinkWithUrlInText) => linked = markdown

----------------------------------------------------------------------------
(* Claims about parseRichText, under SpecRich *)

\* the text is m x m for a marker m and a text x without marker characters
IsMarked(m) ==
    /\ markdown # NULL
    /\ Len(markdown) > 2 * Len(m)
    /\ MatchLit(markdown, 1, m)
    /\ MatchLit(markdown, Len(markdown) - Len(m) + 1, m)
    /\ \A i \in (Len(m) + 1)..(Len(markdown) - Len(m)) : ~IsMarkupChar(markdown[i])

\* the text between the markers
Marked(m) == SubSeq(markdown, Len(m) + 1, Len(markdown) - Len(m))

\* one span without link that holds the marked text under annotation a
OneSpan(m, a) == richText = <<RichTextObj(Marked(m), NULL, {a})>>

\* C17: for a plain run that is one marked segment parseRichText takes the
\* markers away and sets the matching annotation: bold for **x** and __x__,
\* italic for *x* and _x_, strikethrough for ~~x~~, code for a segment
\* between backticks.
C17_OneMarkedSegment ==
    pc = "done" =>
        /\ IsMarked(BOLD) => OneSpan(BOLD, "bold")
        /\ IsMarked(<<"_", "_">>) => OneSpan(<<"_", "_">>, "bold")
        /\ (IsMarked(STAR) /\ ~IsMarked(BOLD)) => OneSpan(STAR, "italic")
        /\ (IsMarked(UNDERSCORE) /\ ~IsMarked(<<"_", "_">>))
           => OneSpan(UNDERSCORE, "italic")
        /\ IsMarked(STRIKE) => OneSpan(STRIKE, "strikethrough")
        /\ IsMarked(BACKTICK) => OneSpan(BACKTICK, "code")

----------------------------------------------------------------------------
(* Claims about filterAttachments, under SpecAttach *)

HasContentID(att) == att.ContentID # NULL /\ att.ContentID # <<>>

\* the name ends, whatever the case of its letters, with a dot and a blocked
\* extension
HasBlockedExtension(att) ==
    /\ att.Name # NULL
    /\ \E e \in BLOCKED_EXTENSIONS :
           /\ Len(att.Name) > Len(e)
           /\ toLowerCase(SubSeq(att.Name, Len(att.Name) - Len(e), Len(att.Name)))
                  = <<".">> \o e

Oversized(att) == att.ContentLength > 20 * 1024 * 1024

Accepted(att) ==
    ~HasContentID(att) /\ ~HasBlockedExtension(att) /\ ~Oversized(att)

Warned(att) == ~HasContentID(att) /\ ~Accepted(att)

\* C20: filterAttachments partitions its input: valid holds, in input order,
\* exactly the attachments with empty ContentID, an extension not in the
\* blocked list (compared case-insensitively) and a size not above 20 MB; an
\* attachment with a non-empty ContentID is dropped without a warning, even if
\* it is also blocked or oversized; every other rejected attachment produces
\* exactly one warning, in input order and under its own name.
C20_Partition ==
    pc = "done" =>
        LET warned == SelectSeq(attachments, Warned)
        IN  /\ filtered.valid = SelectSeq(attachments, Accepted)
            /\ Len(filtered.warnings) = Len(warned)
            /\ \A k \in 1..Len(warned) :
                   /\ filtered.warnings[k].filename =
                          (IF warned[k].Name = NULL THEN UNKNOWN ELSE warned[k].Name)
                   /\ filtered.warnings[k].reason = "blocked file type"
                          <=> HasBlockedExtension(warned[k])

\* an inline image with a blocked name above the limit, then an upper-case
\* blocked extension: nothing is valid and there is one warning
C20_Witness ==
    /\ pc = "done"
    /\ Len(attachments) = 2
    /\ HasContentID(attachments[1])
    /\ HasBlockedExtension(attachments[1])
    /\ Oversized(attachments[1])
    /\ ~HasContentID(attachments[2])
    /\ attachments[2].Name = <<"a",".","E","X","E">>
    /\ filtered.valid = <<>>
    /\ Len(filtered.warnings) = 1

----------------------------------------------------------------------------
(* Claims about the handlers, under SpecHandler *)

\* the To headers that name the inbox and the From headers of allowed senders
GoodRecipients == { <<"n","o","t","i","o","n","-","k","@","i","n">>,
                    <<"I","n"," ","<","N","o","t","i","o","n","-","K","@","i","n",">">> }

GoodSenders == { <<"m","e","@","x">>, <<"M","e"," ","<","M","E","@","x",">">> }

\* the handler has validated an email that names another inbox or comes from
\* a sender that is not allowed
RejectedEmail ==
    /\ locals.validated # "no"
    /\ \/ locals.body.To \notin GoodRecipients
       \/ locals.body.From \notin GoodSenders

\* the calls either handler makes before it validates
CallsBeforeValidation == {"loadConfig", "processSesEvent"}

PostmarkPositions ==
    {"start", "loadConfig", "validate", "process", "convert", "summarize",
     "createEntry", "upload", "callout", "notifyWarning", "return", "catch",
     "returned"}

----------------------------------------------------------------------------
(* Claims about validate.js, under SpecValidate *)

\* the '<' that open an angle-bracket form: a '<', at least one character
\* other than '>', and a '>'
BracketOpens(s) ==
    {i \in 1..Len(s) :
        /\ s[i] = "<"
        /\ \E j \in (i + 2)..Len(s) :
              s[j] = ">" /\ \A h \in (i + 1)..(j - 1) : s[h] # ">"}

\* the words (maximal runs without white space) with an '@' inside them
WordsWithAt(s) ==
    {w \in (1..Len(s)) \X (1..Len(s)) :
        /\ w[1] <= w[2]
        /\ \A h \in w[1]..w[2] : ~IsSpace(s[h])
        /\ w[1] = 1 \/ IsSpace(s[w[1] - 1])
        /\ w[2] = Len(s) \/ IsSpace(s[w[2] + 1])
        /\ \E q \in (w[1] + 1)..(w[2] - 1) : s[q] = "@"}

\* the address a header carries: what the first angle-bracket form holds,
\* else the first word with an '@' inside; NULL when it has neither
AddressOf(s) ==
    IF BracketOpens(s) # {}
    THEN LET i == CHOOSE x \in BracketOpens(s) : \A y \in BracketOpens(s) : x <= y
             j == CHOOSE x \in (i + 2)..Len(s) :
                      /\ s[x] = ">"
                      /\ \A h \in (i + 1)..(x - 1) : s[h] # ">"
         IN  SubSeq(s, i + 1, j - 1)
    ELSE IF WordsWithAt(s) # {}
    THEN LET w == CHOOSE x \in WordsWithAt(s) : \A y \in WordsWithAt(s) : x[1] <= y[1]
         IN  SubSeq(s, w[1], w[2])
    ELSE NULL

\* the part of an address before its first '@', the whole of it without one
LocalPartOf(a) ==
    IF \E q \in 1..Len(a) : a[q] = "@"
    THEN SubSeq(a, 1, (CHOOSE q \in 1..Len(a) :
                           a[q] = "@" /\ \A h \in 1..(q - 1) : a[h] # "@") - 1)
    ELSE a

SameIgnoringCase(a, b) ==
    /\ Len(a) = Len(b)
    /\ \A h \in 1..Len(a) : LowerChar(a[h]) = LowerChar(b[h])

Missing(v) == v = NULL \/ v = <<>>

\* C21: validateRecipient(to, secret) is true exactly when the address
\* extracted from to (angle-bracket or bare form) has a local part equal,
\* whatever the case of the letters, to "notion-" followed by the secret; it
\* is false whenever the address or the secret is missing.
C21_RecipientExact ==
    pc = "recipient done" =>
        /\ valid <=>
              /\ ~Missing(address)
              /\ ~Missing(secret)
              /\ AddressOf(address) # NULL
              /\ SameIgnoringCase(LocalPartOf(AddressOf(address)),
                                  <<"n","o","t","i","o","n","-">> \o secret)
        /\ Missing(address) \/ Missing(secret) => ~valid

\* a display name, the address in capitals inside brackets, and the secret
\* in small letters: accepted
C21_Witness ==
    /\ pc = "recipient done"
    /\ address = <<"N"," ","<","N","o","t","i","o","n","-","K","@","i","n",">">>
    /\ secret = <<"k">>
    /\ valid

\* C22: validateSender(from, allowed) is true exactly when the address
\* extracted from from equals some entry of the allowed list, both sides
\* compared without regard to case; it is false when the list is empty or
\* the sender is missing.
C22_SenderExact ==
    pc = "sender done" =>
        /\ valid <=>
              /\ ~Missing(address)
              /\ AddressOf(address) # NULL
              /\ \E k \in 1..Len(allowedSenders) :
                    SameIgnoringCase(AddressOf(address), allowedSenders[k])
        /\ Missing(address) \/ allowedSenders = <<>> => ~valid

----------------------------------------------------------------------------
(* Claims about summarization, under SpecHandler *)

Called(name) == \E i \in 1..Len(trace) : trace[i] = name

LastCall == IF trace = <<>> THEN "none" ELSE trace[Len(trace)]

\* the handler has the body it would hand to summarizeEmail
BodyCleaned == Called("stripForwardingHeaders")

\* the API key or the prompt is missing, or the body without the white space
\* around it has fewer than 50 characters
NothingToSummarize ==
    \/ locals.config.anthropicApiKey = NULL
    \/ locals.config.summaryPrompt = NULL
    \/ \A a, b \in 1..Len(locals.cleanedTextBody) :
          ~IsSpace(locals.cleanedTextBody[a]) /\ ~IsSpace(locals.cleanedTextBody[b])
              => b - a + 1 < 50

\* C23: summarization is non-critical: summarizeEmail never throws and
\* returns null when the API key or the prompt is missing, when the trimmed
\* body is shorter than 50 characters and when the API call fails; in each
\* of these cases the handler goes on to create the entry, without a
\* Summary property and without a summary callout.
C23_NonCritical ==
    /\ BodyCleaned /\ NothingToSummarize =>
          locals.summary = NULL /\ locals.api \in {"not called", "skipped"}
    /\ locals.api = "failed" => locals.summary = NULL
    /\ LastCall = "summarizeEmail" => pc = "createEntry" /\ error = "none"
    /\ LastCall = "filterAttachments" /\ NothingToSummarize =>
          pc \in {"summarize", "createEntry"} /\ error = "none"
    /\ Called("createEmailEntry") /\ locals.summary = NULL =>
          ~locals.summaryProperty /\ ~locals.summaryCallout

\* the API call failed for a long body and the Postmark handler has created
\* the page and answered with its URL
C23_Witness ==
    /\ variant = "postmark"
    /\ locals.api = "failed"
    /\ Len(locals.cleanedTextBody) >= 50
    /\ Called("createEmailEntry")
    /\ locals.page
    /\ ~locals.summaryProperty
    /\ pc = "returned"
    /\ response.pageUrl

----------------------------------------------------------------------------
(* Claims about a subject without a client tag, under SpecHandler *)

\* the subject does not begin with # and a word character
NoLeadingTag(s) ==
    \/ s = NULL
    \/ Len(s) < 2
    \/ s[1] # "#"
    \/ ~IsWordChar(s[2])

\* C24: an email whose subject has no leading #client tag is a failure:
\* parseSubject throws, no normal entry is created for the email, and the
\* failure is reported. The code does otherwise: parseSubject returns the
\* client "missing" and the handler creates the entry like any other.
C24_MissingTagFails ==
    Called("parseSubject") /\ NoLeadingTag(locals.body.Subject) =>
        /\ parseSubject(locals.body.Subject).threw
        /\ error # "none"
        /\ ~Called("createEmailEntry")

\* what the code does for such a subject: no error from parsing, the client
\* "missing", and the entry once the handler has got that far
C24_MissingTagStored ==
    Called("parseSubject") /\ NoLeadingTag(locals.body.Subject) =>
        /\ ~parseSubject(locals.body.Subject).threw
        /\ locals.client = MISSING
        /\ LastCall = "stripForwardingHeaders" => error = "none"

\* the Postmark handler has created the page of an email without a tag
C24_Witness ==
    /\ variant = "postmark"
    /\ NoLeadingTag(locals.body.Subject)
    /\ locals.client = MISSING
    /\ locals.page
    /\ pc = "returned"
    /\ response.pageUrl
    /\ error = "none"

----------------------------------------------------------------------------
(* Claims about the catch block of the SES handler, under SpecHandler *)

\* how often name was called
Calls(name) == Cardinality({i \in 1..Len(trace) : trace[i] = name})

\* the step is the catch block of the SES handler
SesCatchStep == variant = "ses" /\ pc = "catch"

----------------------------------------------------------------------------
(* Claims about the loose fallback of parseForwardedHeaders, under SpecForward *)

\* parseForwardedHeaders has run on a text none of whose blocks gave a
\* sender that is not a self address
FellBack ==
    /\ pc = "done"
    /\ text # NULL
    /\ text # <<>>
    /\ ~FirstPass(BlocksFrom(text, 1), SelfEmails(allowedSenders)).found

\* the From: line the fallback chose
ChosenFrom == LooseFrom(text, 1, SelfEmails(allowedSenders))

\* the indices from index from on where Date: or Sent: stands with a value
DateLinesFrom(from) ==
    { j \in from..Len(text) :
        /\ MatchLitCI(text, j, DATEKEY) \/ MatchLitCI(text, j, SENTKEY)
        /\ ValueMatch(text, j, j + 5).found }

\* the date written at index j, parsed
DateAt(j) == parseDateString(Trim(ValueMatch(text, j, j + 5).value))

\* C26: in the loose fallback the date is that of the first Date:/Sent:
\* line at or after the chosen From: line; a Date:/Sent: line before the
\* chosen From: line is never used, and there is no date when no sender was
\* chosen.
C26_DateAfterFrom ==
    FellBack =>
        IF ~ChosenFrom.found
        THEN fwd.originalFrom = NULL /\ fwd.originalDate = NULL
        ELSE /\ fwd.originalFrom = Trim(ChosenFrom.value)
             /\ fwd.originalDate =
                   (IF DateLinesFrom(ChosenFrom.index) = {} THEN NULL
                    ELSE DateAt(MinOf(DateLinesFrom(ChosenFrom.index))))

\* a text whose only date line, a well-formed one, stands before the chosen
\* From: line: no date is returned
C26_Witness ==
    /\ FellBack
    /\ ChosenFrom.found
    /\ \E j \in DateLinesFrom(1) : j < ChosenFrom.index /\ DateAt(j) # NULL
    /\ DateLinesFrom(ChosenFrom.index) = {}
    /\ fwd.originalFrom # NULL
    /\ fwd.originalDate = NULL

\* a text whose chosen From: line is followed by a date line, which is used
C26_DateUsed ==
    /\ FellBack
    /\ ChosenFrom.found
    /\ DateLinesFrom(ChosenFrom.index) # {}
    /\ fwd.originalDate # NULL

----------------------------------------------------------------------------
(* Claims about the annotations of parseFormattedText, under SpecRich *)

FormattingCategories == {"bold", "italic", "strikethrough", "code"}

\* the text has no link, so that parseRichText hands it to
\* parseFormattedText as one run
OneRun ==
    /\ pc = "done"
    /\ markdown # NULL
    /\ \A i \in 1..Len(markdown) : markdown[i] \notin {"[", "]", "(", ")"}

\* texts without a marker
PlainWords == { <<"x">>, <<"y"," ","z">> }

\* a bold word followed by a code word
BoldThenCode(a, b) == BOLD \o a \o BOLD \o BACKTICK \o b \o BACKTICK

----------------------------------------------------------------------------
(* Claims about the chunks of chunkText, under SpecChunk *)

\* the characters of s from index i to j - 1 are white space
SpaceBetween(s, i, j) == \A k \in i..(j - 1) : IsSpace(s[k])

\* cs stand in s from index i on, one behind the other and in this order,
\* with nothing but white space between them and behind the last
RECURSIVE InSourceOrder(_, _, _)
InSourceOrder(cs, s, i) ==
    IF cs = <<>> THEN SpaceBetween(s, i, Len(s) + 1)
    ELSE \E j \in i..(Len(s) + 1) :
            /\ SpaceBetween(s, i, j)
            /\ j + Len(Head(cs)) - 1 <= Len(s)
            /\ SubSeq(s, j, j + Len(Head(cs)) - 1) = Head(cs)
            /\ InSourceOrder(Tail(cs), s, j + Len(Head(cs)))

\* C28: for every text and every maxLength >= 1 chunkText terminates, with
\* no more chunks than the text has characters; the chunks are in source
\* order, each is non-empty and at most maxLength long, and the empty text
\* gives no chunk. An iteration that cuts takes at least one character and
\* at most maxLength.
C28_ChunksBounded ==
    pc = "done" /\ maxLength >= 1 =>
        /\ Len(chunks) <= Len(markdown)
        /\ \A i \in 1..Len(chunks) :
              Len(chunks[i]) >= 1 /\ Len(chunks[i]) <= maxLength
        /\ InSourceOrder(chunks, markdown, 1)
        /\ markdown = <<>> => chunks = <<>>
        /\ Len(markdown) > maxLength =>
              BreakPoint(markdown, maxLength) \in 1..maxLength

\* a text cut into three chunks or more, one of them by a hard cut and one
\* at a separator
C28_Witness ==
    /\ pc = "done"
    /\ maxLength >= 2
    /\ Len(chunks) >= 3
    /\ \E i \in 1..Len(chunks) : Len(chunks[i]) = maxLength
    /\ \E i \in 1..Len(chunks) : Len(chunks[i]) < maxLength
    /\ Len(Flatten(chunks)) < Len(markdown)

\* the empty text gives no chunk
C28_EmptyText == pc = "done" /\ markdown = <<>> /\ chunks = <<>>

----------------------------------------------------------------------------
(* Claims about the loop of markdownToBlocks, under SpecScan *)

\* the loop is running
Scanning == pc \in {"loop", "fence"}

\* the lines from index i (counted from 0) on hold no fence
NoFenceFrom(i) == \A k \in (i + 1)..Len(scanLines) : ~StartsFence(scanLines[k])

\* C29: markdownToBlocks terminates on every input: every iteration of its
\* loops adds one to the line index, which never passes the number of
\* lines by more than one, so that the loops end after at most that many
\* iterations; no line is consumed twice and at the end every line has been
\* consumed once; a fence that is not closed takes all the lines that
\* follow as code and ends the scan.
C29_ScanTerminates ==
    /\ [][Scanning =>
             \/ lineIndex' = lineIndex + 1 /\ lineIndex' <= Len(scanLines) + 1
             \/ pc' = "done" /\ lineIndex' = lineIndex /\ lineIndex >= Len(scanLines)]_vars
    /\ [](\A k \in 1..Len(scanLines) :
             /\ Scanning /\ k <= lineIndex => visits[k] = 1
             /\ Scanning /\ k > lineIndex => visits[k] = 0
             /\ pc = "done" => visits[k] = 1)
    /\ [](pc = "fence" =>
             /\ lineIndex - Len(codeLines) >= 1
             /\ StartsFence(scanLines[lineIndex - Len(codeLines)])
             /\ codeLines = SubSeq(scanLines, lineIndex - Len(codeLines) + 1, lineIndex))
    /\ [][pc = "fence" /\ pc' = "loop" /\ lineIndex = Len(scanLines) =>
             /\ lineIndex' = Len(scanLines) + 1
             /\ scanBlocks' = scanBlocks
                   \o CodeBlocks(chunkText(JoinLines(codeLines), ChunkLimit))]_vars
    /\ [](pc = "done" => scanBlocks = markdownToBlocks(markdown))

\* the scan has ended behind a fence that was not closed: the index stands
\* one behind the end, and the last block is a code block that holds the
\* last line
C29_Witness ==
    /\ pc = "done"
    /\ lineIndex = Len(scanLines) + 1
    /\ Len(scanLines) >= 3
    /\ \A k \in 1..Len(scanLines) : visits[k] = 1
    /\ scanBlocks # <<>>
    /\ scanBlocks[Len(scanBlocks)].type = "code"
    /\ scanLines[Len(scanLines)] # <<>>
    /\ ~StartsFence(scanLines[Len(scanLines)])

----------------------------------------------------------------------------
(* Claims about the requests of createEmailEntry, under SpecNotion *)

\* the ids of the blocks in the batches bs
IdsIn(bs) == {Flatten(bs)[k].id : k \in 1..Len(Flatten(bs))}

\* C30: createEmailEntry creates the page before it appends content, and
\* appendBlocksToPage sends the blocks in requests of at most 100 blocks
\* (BATCH_SIZE, scaled), one request answered before the next is sent;
\* when it returns every block has been sent exactly once and the batches,
\* one after the other, are the input sequence.
C30_BatchesInOrder ==
    /\ inFlight # <<>> \/ sent # <<>> => pageCreated
    /\ Len(inFlight) <= 1
    /\ \A k \in 1..Len(inFlight) :
          Len(inFlight[k]) >= 1 /\ Len(inFlight[k]) <= BATCH_SIZE
    /\ \A k \in 1..Len(sent) :
          Len(sent[k]) >= 1 /\ Len(sent[k]) <= BATCH_SIZE
    /\ pageCreated => Flatten(sent) \o Flatten(inFlight) \o pending = contentBlocks
    /\ pc = "done" =>
          /\ pageCreated
          /\ inFlight = <<>>
          /\ Flatten(sent) = contentBlocks
          /\ Cardinality(IdsIn(sent)) = Len(Flatten(sent))

\* createEmailEntry has returned after three requests, the last of them with
\* fewer blocks than the others
C30_Witness ==
    /\ pc = "done"
    /\ pageCreated
    /\ Len(sent) >= 3
    /\ Len(sent[1]) = BATCH_SIZE
    /\ Len(sent[Len(sent)]) < BATCH_SIZE
    /\ Flatten(sent) = contentBlocks

====
